---------------------------- MODULE Spec2Model ----------------------------
(***************************************************************************)
(* A model of the X509 certificate store of xmlsec: the store itself       *)
(* (trust anchors, untrusted pool, CRL pool), the OpenSSL implementation   *)
(* of xmlSecOpenSSLX509StoreVerify as a step machine (one step per loop    *)
(* iteration), and the NSS implementation xmlSecNssX509StoreVerify (one    *)
(* step per call).                                                         *)
(*                                                                         *)
(* Conventions.  A C stack/list is a sequence; the C index i is 0-based    *)
(* and addresses element i + 1 of the sequence.  A pointer that may be     *)
(* NULL is a sequence of length 0 (NULL) or 1.  Pointer identity of a      *)
(* certificate or CRL object is its field id.  Allocation failures of the  *)
(* C library (sk_X509_dup, X509_STORE_CTX_new, ...) are not modelled.      *)
(***************************************************************************)
EXTENDS Integers, Sequences, FiniteSets, TLC

(***************************************************************************)
(* Bounds of the model.                                                    *)
(***************************************************************************)
MaxCerts == 3
MaxCrls == 2
MaxUntrusted == 1
MaxTrusted == 1
MaxStoreCrls == 1
MaxEntries == 3
MaxPairs == 2
MaxStr == 4
MaxFindCerts == 2
MaxDbCerts == 1
MaxCalls == 3
MaxBuf == 5
MaxStr64 == 4
MaxDecodeLen == 6
MaxCtxIn == 3
MaxCtxCalls == 4
MaxSigIn == 2
MaxSigCalls == 4
SigSize == 2

(***************************************************************************)
(* Generic helpers on sequences.                                           *)
(***************************************************************************)
Range(s) == { s[k] : k \in 1..Len(s) }

\* sk_X509_delete / sk_X509_CRL_delete with a 0-based index
sk_delete(s, i) == [ k \in 1..(Len(s) - 1) |-> IF k <= i THEN s[k] ELSE s[k + 1] ]

\* sequences of length <= n over S without repeated elements
RECURSIVE SeqsNoRep(_, _)
SeqsNoRep(S, n) ==
    IF n = 0 THEN { <<>> }
    ELSE LET shorter == SeqsNoRep(S, n - 1)
         IN  shorter \cup { Append(p[1], p[2]) :
                             p \in { q \in shorter \X S : q[2] \notin Range(q[1]) } }

(***************************************************************************)
(* Distinguished names.  An X509_NAME is a sequence of entries, an entry   *)
(* is an attribute type (an object identifier, here a number) and a value  *)
(* (a byte string).                                                        *)
(***************************************************************************)
Entry(n, v) == [ name |-> n, value |-> v ]

\* memcmp on two byte strings of the same length: <0, 0 or >0
RECURSIVE memcmp(_, _)
memcmp(a, b) ==
    IF Len(a) = 0 THEN 0
    ELSE IF Head(a) # Head(b) THEN Head(a) - Head(b)
    ELSE memcmp(Tail(a), Tail(b))

\* xmlSecOpenSSLX509_NAME_ENTRY_cmp: value length, value bytes, then type
X509_NAME_ENTRY_cmp(a, b) ==
    LET a_len == Len(a.value)
        b_len == Len(b.value)
    IN  IF a_len - b_len # 0 THEN a_len - b_len
        ELSE IF a_len > 0 /\ memcmp(a.value, b.value) # 0 THEN memcmp(a.value, b.value)
        ELSE a.name - b.name

\* sk_X509_NAME_ENTRY_sort under X509_NAME_ENTRY_cmp (insertion sort)
RECURSIVE InsertEntry(_, _)
InsertEntry(e, s) ==
    IF Len(s) = 0 THEN << e >>
    ELSE IF X509_NAME_ENTRY_cmp(e, Head(s)) <= 0 THEN << e >> \o s
    ELSE << Head(s) >> \o InsertEntry(e, Tail(s))

\* Variant of the sort that leaves the stack in the order it has
SortSkipped(s) == s

RECURSIVE sk_X509_NAME_ENTRY_sort(_)
sk_X509_NAME_ENTRY_sort(s) ==
    IF Len(s) = 0 THEN <<>>
    ELSE InsertEntry(Head(s), sk_X509_NAME_ENTRY_sort(Tail(s)))

\* xmlSecOpenSSLX509_NAME_ENTRIES_copy: pushes the entries last to first
X509_NAME_ENTRIES_copy(a) == [ k \in 1..Len(a) |-> a[Len(a) + 1 - k] ]

\* xmlSecOpenSSLX509_NAME_ENTRIES_cmp: lengths, then entries from the last one down
RECURSIVE EntriesCmpFrom(_, _, _)
EntriesCmpFrom(a, b, ii) ==
    IF ii < 1 THEN 0
    ELSE IF X509_NAME_ENTRY_cmp(a[ii], b[ii]) # 0 THEN X509_NAME_ENTRY_cmp(a[ii], b[ii])
    ELSE EntriesCmpFrom(a, b, ii - 1)

X509_NAME_ENTRIES_cmp(a, b) ==
    IF Len(a) # Len(b) THEN Len(a) - Len(b)
    ELSE EntriesCmpFrom(a, b, Len(a))

\* xmlSecOpenSSLX509NamesCompare: 0 iff the names hold the same entries in any order
NamesCompare(a, b) ==
    X509_NAME_ENTRIES_cmp(sk_X509_NAME_ENTRY_sort(X509_NAME_ENTRIES_copy(a)),
                          sk_X509_NAME_ENTRY_sort(X509_NAME_ENTRIES_copy(b)))

(***************************************************************************)
(* X509_NAME_hash_ex: a hash of the name's encoding, which depends on the  *)
(* order of the entries; 0 reports a failure.  The model's hash is         *)
(* injective on the names it uses and never 0.                             *)
(***************************************************************************)
RECURSIVE BytesCode(_)
BytesCode(v) == IF Len(v) = 0 THEN 1 ELSE 1 + Head(v) + 8 * BytesCode(Tail(v))

RECURSIVE X509_NAME_hash_ex(_)
X509_NAME_hash_ex(name) ==
    IF Len(name) = 0 THEN 1
    ELSE Head(name).name + 4 * BytesCode(Head(name).value)
         + 1024 * X509_NAME_hash_ex(Tail(name))

\* xmlSecOpenSSLX509GetSubjectHash / xmlSecOpenSSLX509GetIssuerHash
GetSubjectHash(x) == X509_NAME_hash_ex(x.subject)
GetIssuerHash(x) == X509_NAME_hash_ex(x.issuer)

(***************************************************************************)
(* The certificates and CRLs the model draws its inputs from.              *)
(*   certificate: id (object identity), subject, issuer, serial, key (its  *)
(*     public key), signedBy (the key that signed it), notBefore, notAfter *)
(*   CRL: id, issuer, signedBy, nextUpdate (0: a malformed time), revoked  *)
(*     (the serial numbers it lists)                                       *)
(***************************************************************************)
DnRoot == << Entry(1, <<1>>), Entry(2, <<7>>) >>
DnRootPerm == << Entry(2, <<7>>), Entry(1, <<1>>) >>
DnInt == << Entry(1, <<2>>) >>
DnDeep == << Entry(1, <<3>>) >>
DnLeaf == << Entry(1, <<4>>) >>
DnSib == << Entry(1, <<5>>) >>
DnOld == << Entry(1, <<6>>) >>
DnX == << Entry(1, <<1, 1>>) >>
DnY == << Entry(1, <<1, 2>>) >>
DnU == << Entry(1, <<1, 3>>) >>
DnPerm == << Entry(1, <<1, 4>>) >>

Cert(id, subject, issuer, serial, key, signedBy, notBefore, notAfter) ==
    [ id |-> id, subject |-> subject, issuer |-> issuer, serial |-> serial,
      key |-> key, signedBy |-> signedBy, notBefore |-> notBefore, notAfter |-> notAfter ]

Root == Cert("Root", DnRoot, DnRoot, 1, "kRoot", "kRoot", 1, 3)
RootCopy == Cert("RootCopy", DnRoot, DnRoot, 1, "kRoot", "kRoot", 1, 3)
Intermediate == Cert("Int", DnInt, DnRoot, 7, "kInt", "kRoot", 1, 3)
Deep == Cert("Deep", DnDeep, DnInt, 5, "kDeep", "kInt", 1, 3)
Leaf == Cert("Leaf", DnLeaf, DnRoot, 5, "kLeaf", "kRoot", 1, 3)
Sib == Cert("Sib", DnSib, DnRoot, 6, "kSib", "kRoot", 1, 3)
Old == Cert("Old", DnOld, DnRoot, 8, "kOld", "kRoot", 1, 1)
SelfX == Cert("SelfX", DnX, DnX, 1, "kX", "kX", 1, 3)
SelfY == Cert("SelfY", DnY, DnY, 1, "kY", "kY", 1, 3)
Perm == Cert("Perm", DnPerm, DnRootPerm, 9, "kPerm", "kRoot", 1, 3)

Crl(id, issuer, signedBy, nextUpdate, revoked) ==
    [ id |-> id, issuer |-> issuer, signedBy |-> signedBy,
      nextUpdate |-> nextUpdate, revoked |-> revoked ]

crlR5 == Crl("crlR5", DnRoot, "kRoot", 3, << 5 >>)
crlR6 == Crl("crlR6", DnRoot, "kRoot", 2, << 6 >>)
crlRold == Crl("crlRold", DnRoot, "kRoot", 1, << 5 >>)
crlRbad == Crl("crlRbad", DnRoot, "kX", 3, << 5, 6 >>)
crlRmal == Crl("crlRmal", DnRoot, "kRoot", 0, << 6 >>)
crlI5 == Crl("crlI5", DnInt, "kInt", 3, << 5 >>)
crlU == Crl("crlU", DnU, "kU", 3, << 5 >>)
crlS6 == Crl("crlS6", DnRootPerm, "kX", 3, << 6 >>)
crlS5 == Crl("crlS5", DnRoot, "kRoot", 3, << 5 >>)
crlSI5 == Crl("crlSI5", DnInt, "kInt", 3, << 5 >>)

\* certificates an application adopts as trusted / as untrusted, CRLs it adopts
TrustedCerts == { Root, Intermediate }
UntrustedCerts == { Intermediate }
StoreCrls == { crlS6, crlS5, crlSI5 }

\* candidate lists of a Verify call: one family for the revocation cases
\* (with many CRL lists), three for the leaf selection and chain cases
RevocationCerts == { Leaf, Sib, Intermediate }
CallCrls == { crlR5, crlR6, crlRold, crlRbad, crlRmal, crlI5, crlU }
ChainFamilies == { { Root, Intermediate, Deep, Leaf }, { Root, RootCopy, SelfX, SelfY, Perm },
                   { Old, Leaf, Deep, Sib } }

\* an optional CRL stack: NULL or a list
NullCrls == [ null |-> TRUE, items |-> <<>> ]
CrlStack(s) == [ null |-> FALSE, items |-> s ]

\* keyInfoCtx: certsVerificationTime (0: not set), certsVerificationDepth, and
\* the flag XMLSEC_KEYINFO_FLAGS_X509DATA_DONT_VERIFY_CERTS
KeyInfoCtx(t, d, f) ==
    [ certsVerificationTime |-> t, certsVerificationDepth |-> d, dontVerifyCerts |-> f ]

RevocationInputs ==
    { [ certs |-> cs, crls |-> cl, keyInfoCtx |-> KeyInfoCtx(t, 9, FALSE) ] :
        cs \in SeqsNoRep(RevocationCerts, MaxCerts),
        cl \in { NullCrls } \cup { CrlStack(s) : s \in SeqsNoRep(CallCrls, MaxCrls) },
        t \in { 0, 3 } }

ChainInputs ==
    { [ certs |-> cs, crls |-> NullCrls, keyInfoCtx |-> KeyInfoCtx(0, d, f) ] :
        cs \in UNION { SeqsNoRep(F, MaxCerts) : F \in ChainFamilies },
        d \in { 0, 9 }, f \in BOOLEAN }

\* calls that give CRLs and set the flag DONT_VERIFY_CERTS
DontVerifyInputs ==
    { [ certs |-> cs, crls |-> CrlStack(s), keyInfoCtx |-> KeyInfoCtx(0, 9, TRUE) ] :
        cs \in SeqsNoRep({ Leaf, Old }, MaxCerts),
        s \in SeqsNoRep({ crlR5, crlRbad, crlU }, MaxCrls) }

VerifyInputs == RevocationInputs \cup ChainInputs \cup DontVerifyInputs

(***************************************************************************)
(* State.                                                                  *)
(*   backend     the crypto backend the library runs with                  *)
(*   ctx         the xmlSecOpenSSLX509StoreCtx: xst (the X509_STORE of     *)
(*               trust anchors), untrusted, crls                           *)
(*   nssCtx      the xmlSecNssX509StoreCtx: certsList, and trusted, the    *)
(*               certificates marked as trusted in the NSS database        *)
(*   clock       the wall clock read by X509_cmp_current_time              *)
(*   pc          position of the running xmlSecOpenSSLX509StoreVerify      *)
(*   certs, crls, keyInfoCtx   the arguments of the running call           *)
(*   certs2, crls2, i, res, err, err_cert   its local variables            *)
(*   tried       history: the chain validations made so far, in order      *)
(*   errors      the reasons the running call has passed to xmlSecError,   *)
(*               in order                                                  *)
(*   other       the local state of a second call on the same store that   *)
(*               is not at the processor, NoCall when there is none        *)
(*   fn          the name parser's and the name comparison's input and     *)
(*               output, when they are run on their own                    *)
(*   ret         the return value of the last Adopt call                   *)
(***************************************************************************)
VARIABLES backend, ctx, nssCtx, clock, pc, certs, crls, keyInfoCtx, certs2, crls2, i, res,
          err, err_cert, tried, ret, errors, other, fn

vars == << backend, ctx, nssCtx, clock, pc, certs, crls, keyInfoCtx, certs2, crls2, i, res,
           err, err_cert, tried, ret, errors, other, fn >>

storeVars == << backend, ctx, nssCtx, clock, fn, other >>
argVars == << certs, crls, keyInfoCtx >>

NoKeyInfoCtx == KeyInfoCtx(0, 0, FALSE)

\* the local state of a call as a record; NoCall: no call
Locals ==
    [ pc |-> pc, certs |-> certs, crls |-> crls, keyInfoCtx |-> keyInfoCtx, certs2 |-> certs2,
      crls2 |-> crls2, i |-> i, res |-> res, err |-> err, err_cert |-> err_cert,
      tried |-> tried, errors |-> errors ]
NoCall ==
    [ pc |-> "idle", certs |-> <<>>, crls |-> NullCrls, keyInfoCtx |-> NoKeyInfoCtx,
      certs2 |-> <<>>, crls2 |-> NullCrls, i |-> 0, res |-> <<>>, err |-> "X509_V_OK",
      err_cert |-> <<>>, tried |-> <<>>, errors |-> <<>> ]

\* no run of the name functions
NoFn == [ op |-> "none" ]

(***************************************************************************)
(* The OpenSSL library calls the store relies on.                          *)
(***************************************************************************)
\* X509_cmp_current_time: 0 on a malformed time, -1 when the time is not
\* later than the current time, 1 when it is later
X509_cmp_current_time(t) ==
    IF t = 0 THEN 0 ELSE IF t <= clock THEN 0 - 1 ELSE 1

\* X509_STORE_CTX_get_by_subject over the X509_STORE: the first certificate of
\* the store whose subject name has the same encoding; <<>> when there is none
X509_STORE_CTX_get_by_subject(xst, name) ==
    LET found == { k \in 1..Len(xst) : xst[k].subject = name }
    IN  IF found = {} THEN <<>>
        ELSE << xst[CHOOSE k \in found : \A m \in found : k <= m] >>

\* X509_CRL_verify: the CRL's signature checks under the public key
X509_CRL_verify(crl, pkey) == IF crl.signedBy = pkey THEN 1 ELSE 0

\* the time a chain is validated at: X509_VERIFY_PARAM_set_time when
\* certsVerificationTime is set, the current time otherwise
CheckTime(kic) ==
    IF kic.certsVerificationTime > 0 THEN kic.certsVerificationTime ELSE clock

VerifyResult(r, e, c) == [ ret |-> r, err |-> e, err_cert |-> c ]

\* the certificate that issued cur: looked up in the trust store first, then
\* among the untrusted certificates not yet in the chain
IssuersIn(list, cur, chain) ==
    { k \in 1..Len(list) : /\ list[k].subject = cur.issuer
                            /\ list[k].key = cur.signedBy
                            /\ list[k].id \notin { c.id : c \in Range(chain) } }

First(S) == CHOOSE k \in S : \A m \in S : k <= m

\* the first certificate of the chain, root first, that is not valid at time t
RECURSIVE check_cert_time(_, _, _)
check_cert_time(chain, k, t) ==
    IF k < 1 THEN VerifyResult(1, "X509_V_OK", << chain[1] >>)
    ELSE IF chain[k].notBefore > t
         THEN VerifyResult(0, "X509_V_ERR_CERT_NOT_YET_VALID", << chain[k] >>)
    ELSE IF chain[k].notAfter < t
         THEN VerifyResult(0, "X509_V_ERR_CERT_HAS_EXPIRED", << chain[k] >>)
    ELSE check_cert_time(chain, k - 1, t)

\* build_chain of X509_verify_cert: extends the chain from its last
\* certificate up to a self-signed trust anchor
RECURSIVE build_chain(_, _, _, _, _, _)
build_chain(chain, trusted, xst, untrusted, depth, t) ==
    LET cur == chain[Len(chain)]
        inStore == IssuersIn(xst, cur, <<>>)
        inChain == IssuersIn(untrusted, cur, chain)
    IN  IF cur.subject = cur.issuer /\ cur.signedBy = cur.key
        THEN IF trusted \/ \E a \in Range(xst) : [ a EXCEPT !.id = cur.id ] = cur
             THEN IF Len(chain) > depth + 2
                  THEN VerifyResult(0, "X509_V_ERR_CERT_CHAIN_TOO_LONG", << cur >>)
                  ELSE check_cert_time(chain, Len(chain), t)
             ELSE IF Len(chain) = 1
                  THEN VerifyResult(0, "X509_V_ERR_DEPTH_ZERO_SELF_SIGNED_CERT", << cur >>)
                  ELSE VerifyResult(0, "X509_V_ERR_SELF_SIGNED_CERT_IN_CHAIN", << cur >>)
        ELSE IF inStore # {}
             THEN build_chain(Append(chain, xst[First(inStore)]), TRUE, xst, untrusted, depth, t)
        ELSE IF trusted
             THEN VerifyResult(0, "X509_V_ERR_UNABLE_TO_GET_ISSUER_CERT", << cur >>)
        ELSE IF inChain # {}
             THEN build_chain(Append(chain, untrusted[First(inChain)]), FALSE, xst, untrusted,
                              depth, t)
        ELSE VerifyResult(0, "X509_V_ERR_UNABLE_TO_GET_ISSUER_CERT_LOCALLY", << cur >>)

\* X509_verify_cert on a context initialised with (xst, cert, untrusted) and
\* the depth and time parameters of keyInfoCtx
X509_verify_cert(xst, cert, untrusted, kic) ==
    build_chain(<< cert >>, FALSE, xst, untrusted, kic.certsVerificationDepth, CheckTime(kic))

(***************************************************************************)
(* The low-level x509 functions of the OpenSSL store.                      *)
(***************************************************************************)
\* Variant of xmlSecOpenSSLX509VerifyCRL that reports a CRL without issuer as
\* not verified instead of failing
VerifyCRLMissingIssuerDropped(xst, crl) ==
    LET xobj == X509_STORE_CTX_get_by_subject(xst, crl.issuer)
    IN  IF xobj = <<>> THEN 0
        ELSE IF X509_CRL_verify(crl, xobj[1].key) = 1 THEN 1 ELSE 0

\* Variant of xmlSecOpenSSLX509VerifyCRL that looks the issuer up among the
\* certificates of the call when the trust store has none
VerifyCRLAmongCandidates(xst, crl) ==
    LET xobj == X509_STORE_CTX_get_by_subject(xst, crl.issuer)
        cand == { k \in 1..Len(certs2) : certs2[k].subject = crl.issuer }
    IN  IF xobj # <<>>
        THEN (IF X509_CRL_verify(crl, xobj[1].key) = 1 THEN 1 ELSE 0)
        ELSE IF cand = {} THEN 0 - 1
        ELSE IF X509_CRL_verify(crl, certs2[First(cand)].key) = 1 THEN 1 ELSE 0

\* xmlSecOpenSSLX509VerifyCRL: 1 verified, 0 not verified, -1 no issuer found
VerifyCRL(xst, crl) ==
    LET xobj == X509_STORE_CTX_get_by_subject(xst, crl.issuer)
    IN  IF xobj = <<>> THEN 0 - 1
        ELSE IF X509_CRL_verify(crl, xobj[1].key) = 1 THEN 1 ELSE 0

\* Variant of xmlSecOpenSSLX509FindNextChainCert without the test on the
\* subject hash of the other certificate
FindNextChainCertAnySubject(chain, cert) ==
    LET certNameHash == GetSubjectHash(cert)
        hits == { ii \in 1..Len(chain) :
                    /\ cert.id # chain[ii].id
                    /\ certNameHash = GetIssuerHash(chain[ii]) }
    IN  IF hits = {} THEN <<>> ELSE << chain[First(hits)] >>

\* Variant of xmlSecOpenSSLX509FindNextChainCert that compares the certificate
\* with itself as well
FindNextChainCertWithSelf(chain, cert) ==
    LET certNameHash == GetSubjectHash(cert)
        hits == { ii \in 1..Len(chain) : certNameHash = GetIssuerHash(chain[ii]) }
    IN  IF hits = {} THEN <<>> ELSE << chain[First(hits)] >>

\* xmlSecOpenSSLX509FindNextChainCert: a certificate of the chain whose issuer
\* is the subject of cert; <<>> (NULL) when there is none
FindNextChainCert(chain, cert) ==
    LET certNameHash == GetSubjectHash(cert)
        hits == { ii \in 1..Len(chain) :
                    /\ cert.id # chain[ii].id
                    /\ certNameHash # GetSubjectHash(chain[ii])
                    /\ certNameHash = GetIssuerHash(chain[ii]) }
    IN  IF hits = {} THEN <<>> ELSE << chain[First(hits)] >>

\* xmlSecOpenSSLX509VerifyCertAgainstCrls: 0 when the certificate is revoked,
\* 1 otherwise
VerifyCertAgainstCrls(crlList, cert) ==
    LET match == { k \in 1..Len(crlList) : NamesCompare(crlList[k].issuer, cert.issuer) = 0 }
    IN  IF match = {} THEN 1
        ELSE LET crl == crlList[First(match)]
             IN  IF X509_cmp_current_time(crl.nextUpdate) = 0 THEN 1
                 ELSE IF \E n \in 1..Len(crl.revoked) : crl.revoked[n] = cert.serial THEN 0
                 ELSE 1

(***************************************************************************)
(* Initial state: a store after xmlSecOpenSSLX509StoreInitialize (empty    *)
(* trust store, empty untrusted stack, empty CRL stack), no call running.  *)
(***************************************************************************)
Init ==
    /\ backend \in { "openssl", "nss" }
    /\ ctx = [ xst |-> <<>>, untrusted |-> <<>>, crls |-> <<>> ]
    /\ nssCtx = [ certsList |-> <<>>, trusted |-> {} ]
    /\ clock = 2
    /\ pc = "idle"
    /\ certs = <<>>
    /\ crls = NullCrls
    /\ keyInfoCtx = NoKeyInfoCtx
    /\ certs2 = <<>>
    /\ crls2 = NullCrls
    /\ i = 0
    /\ res = <<>>
    /\ err = "X509_V_OK"
    /\ err_cert = <<>>
    /\ tried = <<>>
    /\ ret = 0
    /\ errors = <<>>
    /\ other = NoCall
    /\ fn = NoFn

StoreIds == { c.id : c \in Range(ctx.xst) \cup Range(ctx.untrusted) }

(***************************************************************************)
(* xmlSecOpenSSLX509StoreAdoptCert.  ok is the outcome of the library call *)
(* (X509_STORE_add_cert, sk_X509_push).                                    *)
(***************************************************************************)
\* Variant that puts an untrusted certificate in front of the stack
StoreAdoptCertInFront(cert, trusted, ok) ==
    IF trusted
    THEN /\ ctx' = IF ok THEN [ ctx EXCEPT !.xst = Append(@, cert) ] ELSE ctx
         /\ ret' = IF ok THEN 0 ELSE 0 - 1
    ELSE /\ ctx' = IF ok THEN [ ctx EXCEPT !.untrusted = << cert >> \o @ ] ELSE ctx
         /\ ret' = IF ok THEN 0 ELSE 0 - 1

\* lines 472-493: what the function does to the store and what it returns
StoreAdoptCert(cert, trusted, ok) ==
    IF trusted
    THEN /\ ctx' = IF ok THEN [ ctx EXCEPT !.xst = Append(@, cert) ] ELSE ctx
         /\ ret' = IF ok THEN 0 ELSE 0 - 1
    ELSE /\ ctx' = IF ok THEN [ ctx EXCEPT !.untrusted = Append(@, cert) ] ELSE ctx
         /\ ret' = IF ok THEN 0 ELSE 0 - 1

AdoptCert(cert, trusted, ok) ==
    /\ backend = "openssl"
    /\ pc = "idle"
    /\ cert.id \notin StoreIds
    /\ IF trusted THEN Len(ctx.xst) < MaxTrusted ELSE Len(ctx.untrusted) < MaxUntrusted
    /\ StoreAdoptCert(cert, trusted, ok)
    /\ UNCHANGED << backend, nssCtx, clock, pc, certs, crls, keyInfoCtx, certs2, crls2, i, res, err, err_cert,
                    tried, errors, other, fn >>

(***************************************************************************)
(* xmlSecOpenSSLX509StoreAdoptCrl.                                         *)
(***************************************************************************)
\* lines 516-523: what the function does to the store and what it returns
StoreAdoptCrl(crl, ok) ==
    /\ ctx' = IF ok THEN [ ctx EXCEPT !.crls = Append(@, crl) ] ELSE ctx
    /\ ret' = IF ok THEN 0 ELSE 0 - 1

AdoptCrl(crl, ok) ==
    /\ backend = "openssl"
    /\ pc = "idle"
    /\ crl.id \notin { c.id : c \in Range(ctx.crls) }
    /\ Len(ctx.crls) < MaxStoreCrls
    /\ StoreAdoptCrl(crl, ok)
    /\ UNCHANGED << backend, nssCtx, clock, pc, certs, crls, keyInfoCtx, certs2, crls2, i, res, err, err_cert,
                    tried, errors, other, fn >>

(***************************************************************************)
(* xmlSecOpenSSLX509StoreVerify, lines 251-277: certs2 is a copy of certs  *)
(* followed by the store's untrusted certificates, crls2 a copy of crls.   *)
(***************************************************************************)
VerifyBegin(inp) ==
    /\ backend = "openssl"
    /\ pc = "idle"
    /\ { c.id : c \in Range(inp.certs) } \cap StoreIds = {}
    /\ certs' = inp.certs
    /\ crls' = inp.crls
    /\ keyInfoCtx' = inp.keyInfoCtx
    /\ certs2' = inp.certs \o ctx.untrusted
    /\ crls2' = inp.crls
    /\ i' = 0
    /\ res' = <<>>
    /\ err' = "X509_V_OK"
    /\ err_cert' = <<>>
    /\ tried' = <<>>
    /\ errors' = <<>>
    /\ ret' = 0
    /\ pc' = IF inp.crls.null THEN "revoked" ELSE "crls"
    /\ UNCHANGED storeVars

\* Variant of the step of lines 281-282 that leaves the index where it is
CrlsLoopKeepStays ==
    /\ pc = "crls"
    /\ i < Len(crls2.items)
    /\ VerifyCRL(ctx.xst, crls2.items[i + 1]) = 1
    /\ UNCHANGED vars

\* lines 279-290: the CRL under the index is verified and kept
CrlsLoopKeep ==
    /\ pc = "crls"
    /\ i < Len(crls2.items)
    /\ VerifyCRL(ctx.xst, crls2.items[i + 1]) = 1
    /\ i' = i + 1
    /\ UNCHANGED << storeVars, argVars, pc, certs2, crls2, res, err, err_cert, tried, ret, errors >>

\* Variant of the step of lines 283-284 that keeps the CRL that is not verified
CrlsLoopDeleteKept ==
    /\ pc = "crls"
    /\ i < Len(crls2.items)
    /\ VerifyCRL(ctx.xst, crls2.items[i + 1]) = 0
    /\ i' = i + 1
    /\ UNCHANGED << storeVars, argVars, pc, certs2, crls2, res, err, err_cert, tried, ret, errors >>

\* lines 283-284: the CRL is not verified and is deleted from crls2
CrlsLoopDelete ==
    /\ pc = "crls"
    /\ i < Len(crls2.items)
    /\ VerifyCRL(ctx.xst, crls2.items[i + 1]) = 0
    /\ crls2' = [ crls2 EXCEPT !.items = sk_delete(@, i) ]
    /\ UNCHANGED << storeVars, argVars, pc, certs2, i, res, err, err_cert, tried, ret, errors >>

\* lines 285-289: xmlSecOpenSSLX509VerifyCRL failed, goto done
CrlsLoopError ==
    /\ pc = "crls"
    /\ i < Len(crls2.items)
    /\ VerifyCRL(ctx.xst, crls2.items[i + 1]) < 0
    /\ pc' = "done"
    /\ errors' = Append(errors, "XMLSEC_ERRORS_R_XMLSEC_FAILED")
    /\ UNCHANGED << storeVars, argVars, certs2, crls2, i, res, err, err_cert, tried, ret >>

CrlsLoopEnd ==
    /\ pc = "crls"
    /\ i >= Len(crls2.items)
    /\ pc' = "revoked"
    /\ i' = 0
    /\ UNCHANGED << storeVars, argVars, certs2, crls2, res, err, err_cert, tried, ret, errors >>

\* Variant of the test of lines 294-321 that revokes nothing when the caller
\* asked for no verification of the certificates
RevokedAtUnlessDontVerify(k) ==
    /\ ~keyInfoCtx.dontVerifyCerts
    /\ \/ ~crls2.null /\ VerifyCertAgainstCrls(crls2.items, certs2[k + 1]) = 0
       \/ VerifyCertAgainstCrls(ctx.crls, certs2[k + 1]) = 0

\* lines 294-321: is the certificate under the index revoked by crls2 or by
\* the CRLs of the store
RevokedAt(k) ==
    \/ ~crls2.null /\ VerifyCertAgainstCrls(crls2.items, certs2[k + 1]) = 0
    \/ VerifyCertAgainstCrls(ctx.crls, certs2[k + 1]) = 0

\* Variant of the removal of a revoked certificate that removes it from the
\* caller's stack as well
RevokedLoopDeleteInPlace ==
    /\ pc = "revoked"
    /\ i < Len(certs2)
    /\ RevokedAt(i)
    /\ certs2' = sk_delete(certs2, i)
    /\ certs' = IF i < Len(certs) THEN sk_delete(certs, i) ELSE certs
    /\ UNCHANGED << storeVars, crls, keyInfoCtx, pc, crls2, i, res, err, err_cert, tried, ret,
                    errors >>

RevokedLoopDelete ==
    /\ pc = "revoked"
    /\ i < Len(certs2)
    /\ RevokedAt(i)
    /\ certs2' = sk_delete(certs2, i)
    /\ UNCHANGED << storeVars, argVars, pc, crls2, i, res, err, err_cert, tried, ret, errors >>

RevokedLoopNext ==
    /\ pc = "revoked"
    /\ i < Len(certs2)
    /\ ~RevokedAt(i)
    /\ i' = i + 1
    /\ UNCHANGED << storeVars, argVars, pc, certs2, crls2, res, err, err_cert, tried, ret, errors >>

RevokedLoopEnd ==
    /\ pc = "revoked"
    /\ i >= Len(certs2)
    /\ pc' = "verify"
    /\ i' = 0
    /\ UNCHANGED << storeVars, argVars, certs2, crls2, res, err, err_cert, tried, ret, errors >>

\* lines 362-368: the validation of one starting certificate
TryCert(cert) ==
    IF ~keyInfoCtx.dontVerifyCerts
    THEN X509_verify_cert(ctx.xst, cert, certs2, keyInfoCtx)
    ELSE VerifyResult(1, "X509_V_OK", <<>>)

\* lines 324-326: the certificate under the index issued another one, skip it
VerifyLoopSkip ==
    /\ pc = "verify"
    /\ i < Len(certs2)
    /\ FindNextChainCert(certs2, certs2[i + 1]) # <<>>
    /\ i' = i + 1
    /\ UNCHANGED << storeVars, argVars, pc, certs2, crls2, res, err, err_cert, tried, ret, errors >>

\* Variant of the step of lines 372-374 that goes on with the next certificate
VerifyLoopFoundGoesOn ==
    /\ pc = "verify"
    /\ i < Len(certs2)
    /\ FindNextChainCert(certs2, certs2[i + 1]) = <<>>
    /\ LET r == TryCert(certs2[i + 1])
       IN  /\ r.ret = 1
           /\ err' = r.err
           /\ err_cert' = r.err_cert
           /\ tried' = Append(tried, [ cert |-> certs2[i + 1], ok |-> r.ret = 1 ])
    /\ res' = << certs2[i + 1] >>
    /\ i' = i + 1
    /\ UNCHANGED << storeVars, argVars, pc, certs2, crls2, ret, errors >>

\* lines 372-374: the chain validates, the certificate is the result
VerifyLoopFound ==
    /\ pc = "verify"
    /\ i < Len(certs2)
    /\ FindNextChainCert(certs2, certs2[i + 1]) = <<>>
    /\ LET r == TryCert(certs2[i + 1])
       IN  /\ r.ret = 1
           /\ err' = r.err
           /\ err_cert' = r.err_cert
           /\ tried' = Append(tried, [ cert |-> certs2[i + 1], ok |-> r.ret = 1 ])
    /\ res' = << certs2[i + 1] >>
    /\ pc' = "done"
    /\ UNCHANGED << storeVars, argVars, certs2, crls2, i, ret, errors >>

\* Variant of the step of lines 379-392 that keeps the error of the first
\* failed validation
VerifyLoopFailedKeepsFirst ==
    /\ pc = "verify"
    /\ i < Len(certs2)
    /\ FindNextChainCert(certs2, certs2[i + 1]) = <<>>
    /\ LET r == TryCert(certs2[i + 1])
       IN  /\ r.ret = 0
           /\ err' = IF err = "X509_V_OK" THEN r.err ELSE err
           /\ err_cert' = IF err = "X509_V_OK" THEN r.err_cert ELSE err_cert
           /\ tried' = Append(tried, [ cert |-> certs2[i + 1], ok |-> r.ret = 1 ])
    /\ errors' = Append(errors, "XMLSEC_ERRORS_R_CERT_VERIFY_FAILED")
    /\ i' = i + 1
    /\ UNCHANGED << storeVars, argVars, pc, certs2, crls2, res, ret >>

\* lines 379-392: the chain does not validate, the error is kept and ignored
VerifyLoopFailed ==
    /\ pc = "verify"
    /\ i < Len(certs2)
    /\ FindNextChainCert(certs2, certs2[i + 1]) = <<>>
    /\ LET r == TryCert(certs2[i + 1])
       IN  /\ r.ret = 0
           /\ err' = r.err
           /\ err_cert' = r.err_cert
           /\ tried' = Append(tried, [ cert |-> certs2[i + 1], ok |-> r.ret = 1 ])
    /\ errors' = Append(errors, "XMLSEC_ERRORS_R_CERT_VERIFY_FAILED")
    /\ i' = i + 1
    /\ UNCHANGED << storeVars, argVars, pc, certs2, crls2, res, ret >>

\* lines 404-435: the reason reported for the error of the last validation
VerifyErrorReason(e) ==
    CASE e = "X509_V_ERR_UNABLE_TO_GET_ISSUER_CERT" -> "XMLSEC_ERRORS_R_CERT_ISSUER_FAILED"
      [] e \in { "X509_V_ERR_CERT_NOT_YET_VALID", "X509_V_ERR_ERROR_IN_CERT_NOT_BEFORE_FIELD" }
            -> "XMLSEC_ERRORS_R_CERT_NOT_YET_VALID"
      [] e \in { "X509_V_ERR_CERT_HAS_EXPIRED", "X509_V_ERR_ERROR_IN_CERT_NOT_AFTER_FIELD" }
            -> "XMLSEC_ERRORS_R_CERT_HAS_EXPIRED"
      [] OTHER -> "XMLSEC_ERRORS_R_CERT_VERIFY_FAILED"

\* lines 396-437: nothing was found; an error is reported when err and
\* err_cert are set
VerifyLoopEnd ==
    /\ pc = "verify"
    /\ i >= Len(certs2)
    /\ pc' = "done"
    /\ errors' = IF err # "X509_V_OK" /\ err_cert # <<>>
                  THEN Append(errors, VerifyErrorReason(err))
                  ELSE errors
    /\ UNCHANGED << storeVars, argVars, certs2, crls2, i, res, err, err_cert, tried, ret >>

\* lines 438-448: the working copies are freed and res is returned
VerifyReturn ==
    /\ pc = "done"
    /\ pc' = "idle"
    /\ certs' = <<>>
    /\ crls' = NullCrls
    /\ keyInfoCtx' = NoKeyInfoCtx
    /\ certs2' = <<>>
    /\ crls2' = NullCrls
    /\ i' = 0
    /\ res' = <<>>
    /\ err' = "X509_V_OK"
    /\ err_cert' = <<>>
    /\ tried' = <<>>
    /\ errors' = <<>>
    /\ ret' = IF res = <<>> THEN 0 - 1 ELSE 0
    /\ UNCHANGED storeVars

(***************************************************************************)
(* Two calls of xmlSecOpenSSLX509StoreVerify on one store.  The variables  *)
(* of a call are automatic (lines 225-234) and its working stacks and its  *)
(* X509_STORE_CTX are allocated by the call (lines 240, 251, 272), so a    *)
(* call that loses the processor keeps them and finds them again.          *)
(***************************************************************************)
\* Variant of the change of the running call in which the loop index is one
\* variable for both calls
SwitchSharedIndex ==
    /\ pc # "idle" \/ other.pc # "idle"
    /\ other' = Locals
    /\ pc' = other.pc
    /\ certs' = other.certs
    /\ crls' = other.crls
    /\ keyInfoCtx' = other.keyInfoCtx
    /\ certs2' = other.certs2
    /\ crls2' = other.crls2
    /\ res' = other.res
    /\ err' = other.err
    /\ err_cert' = other.err_cert
    /\ tried' = other.tried
    /\ errors' = other.errors
    /\ UNCHANGED << backend, ctx, nssCtx, clock, fn, ret, i >>

\* the running call loses the processor to the other call, or to a new one
Switch ==
    /\ pc # "idle" \/ other.pc # "idle"
    /\ other' = Locals
    /\ pc' = other.pc
    /\ certs' = other.certs
    /\ crls' = other.crls
    /\ keyInfoCtx' = other.keyInfoCtx
    /\ certs2' = other.certs2
    /\ crls2' = other.crls2
    /\ i' = other.i
    /\ res' = other.res
    /\ err' = other.err
    /\ err_cert' = other.err_cert
    /\ tried' = other.tried
    /\ errors' = other.errors
    /\ UNCHANGED << backend, ctx, nssCtx, clock, fn, ret >>

\* stores and calls of the two-call runs
ConcStores ==
    { [ xst |-> << Root >>, untrusted |-> <<>>, crls |-> <<>> ],
      [ xst |-> << Root >>, untrusted |-> << Intermediate >>, crls |-> << crlS5 >> ] }
ConcInputs ==
    { [ certs |-> p[1], crls |-> p[2], keyInfoCtx |-> KeyInfoCtx(0, 9, FALSE) ] :
        p \in { << << Leaf, Sib >>, CrlStack(<< crlR5, crlRbad >>) >>,
                << << Leaf >>, CrlStack(<< crlU >>) >>,
                << << Intermediate, Deep >>, NullCrls >>,
                << << Old, Deep >>, NullCrls >>,
                << << Sib, Leaf >>, CrlStack(<< crlR6 >>) >>,
                << << Deep >>, CrlStack(<< crlRbad, crlR5 >>) >> } }

InitConc ==
    /\ backend = "openssl"
    /\ ctx \in ConcStores
    /\ nssCtx = [ certsList |-> <<>>, trusted |-> {} ]
    /\ clock = 2
    /\ pc = "idle"
    /\ certs = <<>>
    /\ crls = NullCrls
    /\ keyInfoCtx = NoKeyInfoCtx
    /\ certs2 = <<>>
    /\ crls2 = NullCrls
    /\ i = 0
    /\ res = <<>>
    /\ err = "X509_V_OK"
    /\ err_cert = <<>>
    /\ tried = <<>>
    /\ ret = 0
    /\ errors = <<>>
    /\ other = NoCall
    /\ fn = NoFn

NextConc ==
    \/ pc = "idle" /\ \E inp \in ConcInputs : VerifyBegin(inp)
    \/ Switch
    \/ CrlsLoopKeep
    \/ CrlsLoopDelete
    \/ CrlsLoopError
    \/ CrlsLoopEnd
    \/ RevokedLoopDelete
    \/ RevokedLoopNext
    \/ RevokedLoopEnd
    \/ VerifyLoopSkip
    \/ VerifyLoopFound
    \/ VerifyLoopFailed
    \/ VerifyLoopEnd
    \/ VerifyReturn

SpecConc == InitConc /\ [][NextConc]_vars

(***************************************************************************)
(* The statements of a running xmlSecOpenSSLX509StoreVerify.               *)
(***************************************************************************)
CallStep ==
    \/ CrlsLoopKeep
    \/ CrlsLoopDelete
    \/ CrlsLoopError
    \/ CrlsLoopEnd
    \/ RevokedLoopDelete
    \/ RevokedLoopNext
    \/ RevokedLoopEnd
    \/ VerifyLoopSkip
    \/ VerifyLoopFound
    \/ VerifyLoopFailed
    \/ VerifyLoopEnd
    \/ VerifyReturn

\* One call at a time on a store that no Adopt call changes.  The function is
\* sequential C code without a blocking call: while a statement of the call
\* can run, one does.
CallInputs ==
    { [ inp EXCEPT !.keyInfoCtx = KeyInfoCtx(0, 9, b) ] : inp \in ConcInputs, b \in BOOLEAN }

NextCall ==
    \/ pc = "idle" /\ \E inp \in CallInputs : VerifyBegin(inp)
    \/ CallStep

SpecCall == InitConc /\ [][NextCall]_vars /\ WF_vars(CallStep)

(***************************************************************************)
(* The name functions run on their own: fn holds the arguments of the run  *)
(* and, once the function has returned, its result.                        *)
(***************************************************************************)
\* no store operation runs and the store is empty
Quiet ==
    /\ backend = "openssl"
    /\ ctx = [ xst |-> <<>>, untrusted |-> <<>>, crls |-> <<>> ]
    /\ nssCtx = [ certsList |-> <<>>, trusted |-> {} ]
    /\ clock = 2
    /\ pc = "idle"
    /\ certs = <<>>
    /\ crls = NullCrls
    /\ keyInfoCtx = NoKeyInfoCtx
    /\ certs2 = <<>>
    /\ crls2 = NullCrls
    /\ i = 0
    /\ res = <<>>
    /\ err = "X509_V_OK"
    /\ err_cert = <<>>
    /\ tried = <<>>
    /\ ret = 0
    /\ errors = <<>>
    /\ other = NoCall

nonFnVars == << backend, ctx, nssCtx, clock, pc, certs, crls, keyInfoCtx, certs2, crls2, i, res,
                err, err_cert, tried, ret, errors, other >>

\* the entries and the names the comparison is run on: two attribute types,
\* values that differ in length and values that differ in a byte
NameEntries ==
    { Entry(1, << 1 >>), Entry(2, << 1 >>), Entry(1, << 2 >>), Entry(1, << 1, 1 >>) }
Names == UNION { [ 1..n -> NameEntries ] : n \in 0..MaxEntries }

InitNames ==
    /\ Quiet
    /\ fn \in { [ op |-> "NamesCompare", a |-> a, b |-> b, called |-> FALSE, ret |-> 0 ] :
                   a \in Names, b \in Names }

\* xmlSecOpenSSLX509NamesCompare(a, b)
NamesCompareCall ==
    /\ fn.op = "NamesCompare"
    /\ ~fn.called
    /\ fn' = [ fn EXCEPT !.called = TRUE, !.ret = NamesCompare(fn.a, fn.b) ]
    /\ UNCHANGED nonFnVars

NextNames == NamesCompareCall

SpecNames == InitNames /\ [][NextNames]_vars

(***************************************************************************)
(* The parser of distinguished-name strings.  A string is a sequence of    *)
(* bytes (numbers 0..255); Ch gives the byte of a character and T the      *)
(* string of a tuple of characters.                                        *)
(***************************************************************************)
Ch(c) ==
    CASE c = "\t" -> 9
      [] c = " " -> 32
      [] c = "\"" -> 34
      [] c = "#" -> 35
      [] c = "," -> 44
      [] c = "0" -> 48
      [] c = "1" -> 49
      [] c = "2" -> 50
      [] c = "4" -> 52
      [] c = "=" -> 61
      [] c = "A" -> 65
      [] c = "C" -> 67
      [] c = "D" -> 68
      [] c = "E" -> 69
      [] c = "N" -> 78
      [] c = "O" -> 79
      [] c = "\\" -> 92
      [] c = "a" -> 97
      [] c = "b" -> 98
      [] c = "d" -> 100
      [] c = "e" -> 101
      [] c = "i" -> 105
      [] c = "l" -> 108
      [] c = "m" -> 109
      [] c = "r" -> 114
      [] c = "s" -> 115
      [] c = "x" -> 120

T(s) == [ k \in 1..Len(s) |-> Ch(s[k]) ]
Rep(c, n) == [ k \in 1..n |-> Ch(c) ]
Drop(s, n) == SubSeq(s, n + 1, Len(s))

\* isspace of the C library, in the C locale
isspace(c) == c \in { 9, 10, 11, 12, 13, 32 }

\* xmlSecIsHex, xmlSecGetHex
xmlSecIsHex(c) == c \in (48..57) \cup (65..70) \cup (97..102)
xmlSecGetHex(c) ==
    IF c \in 48..57 THEN c - 48
    ELSE IF c \in 97..102 THEN c - 97 + 10
    ELSE IF c \in 65..70 THEN c - 65 + 10
    ELSE 0

\* sizeof(name), sizeof(value)
NameBufSize == 256

\* lines 1207-1209: nonSpace after the bytes run have been written behind out
NonSpaceAfter(ingoreTrailingSpaces, out, run, nonSpace) ==
    LET ns == { k \in DOMAIN run : ~isspace(run[k]) }
    IN  IF ingoreTrailingSpaces /\ ns # { }
        THEN Len(out) + (CHOOSE k \in ns : \A n \in ns : n <= k)
        ELSE nonSpace

\* the number of bytes from in[ii] on that are neither the delimiter nor a
\* backslash: the loop copies them one by one
PlainRun(in, delim, ii) ==
    LET stops == { k \in (ii + 1)..Len(in) : in[k] = delim \/ in[k] = Ch("\\") }
    IN  IF stops = { } THEN Len(in) - ii
        ELSE (CHOOSE k \in stops : \A n \in stops : k <= n) - ii - 1

\* xmlSecOpenSSLX509NameStringRead and xmlSecNssX509NameStringRead (the two
\* are the same code): in is the input left, of length *inSize; the result is
\* the return value, the number ii of bytes consumed and the outWritten first
\* bytes of out.  One pass of the operator is one pass of the loop for an
\* escape, and as many passes as there are bytes for a run of plain bytes
\* (which fails when out is full before the run is copied).
StringReadDone(ii, out, nonSpace, ingoreTrailingSpaces) ==
    [ ret |-> 0, ii |-> ii,
      out |-> SubSeq(out, 1, IF ingoreTrailingSpaces THEN nonSpace ELSE Len(out)) ]
StringReadFailed == [ ret |-> 0 - 1, ii |-> 0, out |-> << >> ]

\* Variant of the loop that takes a hex digit after a backslash as the
\* character itself when no second hex digit follows
RECURSIVE NameStringReadLoopLoneHexLiteral(_, _, _, _, _, _, _)
NameStringReadLoopLoneHexLiteral(in, outSize, delim, ingoreTrailingSpaces, ii, out, nonSpace) ==
    IF ii >= Len(in) THEN StringReadDone(ii, out, nonSpace, ingoreTrailingSpaces)
    ELSE IF in[ii + 1] = delim THEN StringReadDone(ii, out, nonSpace, ingoreTrailingSpaces)
    ELSE IF Len(out) >= outSize THEN StringReadFailed
    ELSE IF in[ii + 1] = Ch("\\") THEN
        IF ii + 1 >= Len(in) THEN StringReadDone(ii + 1, out, nonSpace, ingoreTrailingSpaces)
        ELSE IF xmlSecIsHex(in[ii + 2]) /\ ii + 2 < Len(in) /\ xmlSecIsHex(in[ii + 3])
        THEN NameStringReadLoopLoneHexLiteral(in, outSize, delim, ingoreTrailingSpaces, ii + 3,
                 Append(out, (xmlSecGetHex(in[ii + 2]) * 16 + xmlSecGetHex(in[ii + 3])) % 256),
                 NonSpaceAfter(ingoreTrailingSpaces, out,
                               << (xmlSecGetHex(in[ii + 2]) * 16 + xmlSecGetHex(in[ii + 3])) % 256 >>,
                               nonSpace))
        ELSE NameStringReadLoopLoneHexLiteral(in, outSize, delim, ingoreTrailingSpaces, ii + 2,
                 Append(out, in[ii + 2]),
                 NonSpaceAfter(ingoreTrailingSpaces, out, << in[ii + 2] >>, nonSpace))
    ELSE IF Len(out) + PlainRun(in, delim, ii) > outSize THEN StringReadFailed
    ELSE NameStringReadLoopLoneHexLiteral(in, outSize, delim, ingoreTrailingSpaces,
             ii + PlainRun(in, delim, ii), out \o SubSeq(in, ii + 1, ii + PlainRun(in, delim, ii)),
             NonSpaceAfter(ingoreTrailingSpaces, out,
                           SubSeq(in, ii + 1, ii + PlainRun(in, delim, ii)), nonSpace))

RECURSIVE NameStringReadLoop(_, _, _, _, _, _, _)
NameStringReadLoop(in, outSize, delim, ingoreTrailingSpaces, ii, out, nonSpace) ==
    IF ii >= Len(in) THEN StringReadDone(ii, out, nonSpace, ingoreTrailingSpaces)
    ELSE IF in[ii + 1] = delim THEN StringReadDone(ii, out, nonSpace, ingoreTrailingSpaces)
    ELSE IF Len(out) >= outSize THEN StringReadFailed
    ELSE IF in[ii + 1] = Ch("\\") THEN
        IF ii + 1 >= Len(in) THEN StringReadDone(ii + 1, out, nonSpace, ingoreTrailingSpaces)
        ELSE IF xmlSecIsHex(in[ii + 2]) THEN
            IF ii + 2 >= Len(in) THEN StringReadFailed
            ELSE IF ~xmlSecIsHex(in[ii + 3]) THEN StringReadFailed
            ELSE LET outCh == (xmlSecGetHex(in[ii + 2]) * 16 + xmlSecGetHex(in[ii + 3])) % 256
                 IN  NameStringReadLoop(in, outSize, delim, ingoreTrailingSpaces, ii + 3,
                         Append(out, outCh),
                         NonSpaceAfter(ingoreTrailingSpaces, out, << outCh >>, nonSpace))
        ELSE NameStringReadLoop(in, outSize, delim, ingoreTrailingSpaces, ii + 2,
                 Append(out, in[ii + 2]),
                 NonSpaceAfter(ingoreTrailingSpaces, out, << in[ii + 2] >>, nonSpace))
    ELSE
        LET n == PlainRun(in, delim, ii)
            run == SubSeq(in, ii + 1, ii + n)
        IN  IF Len(out) + n > outSize THEN StringReadFailed
            ELSE NameStringReadLoop(in, outSize, delim, ingoreTrailingSpaces, ii + n,
                     out \o run, NonSpaceAfter(ingoreTrailingSpaces, out, run, nonSpace))

NameStringRead(in, outSize, delim, ingoreTrailingSpaces) ==
    NameStringReadLoop(in, outSize, delim, ingoreTrailingSpaces, 0, << >>, 0)

\* while((strSize > 0) && isspace(*str)) { ++str; --strSize; }
RECURSIVE SkipSpaces(_)
SkipSpaces(str) ==
    IF Len(str) > 0 /\ isspace(Head(str)) THEN SkipSpaces(Tail(str)) ELSE str

\* a byte buffer read as a C string: the bytes before the first 0
CString(buf) ==
    LET zeros == { k \in DOMAIN buf : buf[k] = 0 }
    IN  IF zeros = { } THEN buf
        ELSE SubSeq(buf, 1, (CHOOSE k \in zeros : \A n \in zeros : k <= n) - 1)

\* X509_NAME_add_entry_by_txt succeeds for the attribute names OBJ_txt2obj
\* knows; the length limits of the library's string table are not modelled
\* (domainComponent has no upper limit, and the other inputs stay below).
KnownAttributeNames ==
    { T(<< "C", "N" >>), T(<< "O" >>), T(<< "D", "C" >>), T(<< "C" >>),
      T(<< "e", "m", "a", "i", "l", "A", "d", "d", "r", "e", "s", "s" >>) }

\* the outcomes of xmlSecOpenSSLX509NameRead: res = NULL, or the name read;
\* ub: a byte was written behind the end of name or value on the way
NameReadFailed(ub) == [ ok |-> FALSE, nm |-> << >>, ub |-> ub ]

\* lines 1126-1128: if(strSize > 0) { ++str; --strSize; }
AfterValue(str) == IF Len(str) > 0 THEN Tail(str) ELSE str

\* Variant of the value of a pair in which a quoted value may end with the
\* input, its closing quote missing
ValueReadOpenQuote(str) ==
    IF Len(str) = 0 THEN [ ret |-> 0, out |-> << >>, rest |-> str ]
    ELSE
        LET s1 == Tail(str)
        IN  IF Len(s1) > 0 /\ Head(s1) = Ch("\"") THEN
                LET s2 == Tail(s1)
                    v == NameStringRead(s2, NameBufSize, Ch("\""), TRUE)
                    s3 == Drop(s2, v.ii)
                    s4 == SkipSpaces(IF Len(s3) > 0 THEN Tail(s3) ELSE s3)
                IN  IF v.ret < 0 THEN [ ret |-> 0 - 1 ]
                    ELSE IF Len(s4) > 0 /\ Head(s4) # Ch(",") THEN [ ret |-> 0 - 1 ]
                    ELSE [ ret |-> 0, out |-> v.out,
                           rest |-> IF Len(s4) > 0 THEN Tail(s4) ELSE s4 ]
            ELSE IF Len(s1) > 0 /\ Head(s1) = Ch("#") THEN [ ret |-> 0 - 1 ]
            ELSE
                LET v == NameStringRead(s1, NameBufSize, Ch(","), TRUE)
                IN  IF v.ret < 0 THEN [ ret |-> 0 - 1 ]
                    ELSE [ ret |-> 0, out |-> v.out, rest |-> Drop(s1, v.ii) ]

\* lines 1079-1124: the value of a pair, str being what follows the name; the
\* result is the value read and the input left, or a failure
ValueRead(str) ==
    IF Len(str) = 0 THEN [ ret |-> 0, out |-> << >>, rest |-> str ]
    ELSE
        LET s1 == Tail(str)
        IN  IF Len(s1) > 0 /\ Head(s1) = Ch("\"") THEN
                LET s2 == Tail(s1)
                    v == NameStringRead(s2, NameBufSize, Ch("\""), TRUE)
                    s3 == Drop(s2, v.ii)
                    s4 == SkipSpaces(Tail(s3))
                IN  IF v.ret < 0 THEN [ ret |-> 0 - 1 ]
                    ELSE IF Len(s3) = 0 \/ Head(s3) # Ch("\"") THEN [ ret |-> 0 - 1 ]
                    ELSE IF Len(s4) > 0 /\ Head(s4) # Ch(",") THEN [ ret |-> 0 - 1 ]
                    ELSE [ ret |-> 0, out |-> v.out,
                           rest |-> IF Len(s4) > 0 THEN Tail(s4) ELSE s4 ]
            ELSE IF Len(s1) > 0 /\ Head(s1) = Ch("#") THEN [ ret |-> 0 - 1 ]
            ELSE
                LET v == NameStringRead(s1, NameBufSize, Ch(","), TRUE)
                IN  IF v.ret < 0 THEN [ ret |-> 0 - 1 ]
                    ELSE [ ret |-> 0, out |-> v.out, rest |-> Drop(s1, v.ii) ]

RECURSIVE NameReadLoop(_, _, _)
NameReadLoop(str, nm, ub) ==
    IF Len(str) = 0 THEN [ ok |-> TRUE, nm |-> nm, ub |-> ub ]
    ELSE
        LET s1 == SkipSpaces(str)
            n == NameStringRead(s1, NameBufSize, Ch("="), FALSE)
        IN  IF n.ret < 0 THEN NameReadFailed(ub)
            ELSE
                LET name == IF CString(n.out) = T(<< "E" >>)
                            THEN T(<< "e", "m", "a", "i", "l", "A", "d", "d", "r", "e", "s", "s" >>)
                            ELSE CString(n.out)
                    v == ValueRead(Drop(s1, n.ii))
                    ub1 == ub \/ Len(n.out) >= NameBufSize
                IN  IF v.ret < 0 THEN NameReadFailed(ub1)
                    ELSE IF name \notin KnownAttributeNames
                    THEN NameReadFailed(ub1 \/ Len(v.out) >= NameBufSize)
                    ELSE NameReadLoop(AfterValue(v.rest),
                                      Append(nm, [ name |-> name, value |-> v.out ]),
                                      ub1 \/ Len(v.out) >= NameBufSize)

NameRead(str) == NameReadLoop(str, << >>, FALSE)

(***************************************************************************)
(* The parser run on its own.  A run of xmlSecOpenSSLX509NameRead records  *)
(* the text read, the pairs the text was written from (made, empty when it *)
(* was not written from pairs) and the outcome; a write behind the end of  *)
(* a buffer is undefined behaviour, after which the run either goes on as  *)
(* if nothing had happened or faults.                                      *)
(***************************************************************************)
\* one pair as text: whitespace, name, '=', the value bare or in quotes, with
\* whitespace pad after the value's last character
PairText(d) ==
    d.ws \o d.name \o T(<< "=" >>) \o
    (IF d.quoted THEN T(<< "\"" >>) \o d.value \o d.pad \o T(<< "\"" >>) ELSE d.value \o d.pad)

RECURSIVE PairsText(_)
PairsText(ds) ==
    IF Len(ds) = 0 THEN << >>
    ELSE IF Len(ds) = 1 THEN PairText(ds[1])
    ELSE PairText(ds[1]) \o T(<< "," >>) \o PairsText(Tail(ds))

PairForms ==
    { [ name |-> n, quoted |-> f[1], value |-> f[2], pad |-> p ] :
        n \in { T(<< "C", "N" >>), T(<< "O" >>) },
        f \in { << FALSE, T(<< "x" >>) >>, << FALSE, T(<< "x", " ", "b" >>) >>,
                << TRUE, T(<< "x" >>) >>, << TRUE, T(<< "x", ",", " ", "b" >>) >> },
        p \in { << >>, T(<< " " >>) } }
WithWs(form, ws) ==
    [ ws |-> ws, name |-> form.name, quoted |-> form.quoted, value |-> form.value, pad |-> form.pad ]
FirstPairs == { WithWs(f, ws) : f \in PairForms, ws \in { << >>, T(<< " " >>) } }
NextPairs == { WithWs(f, ws) : f \in PairForms, ws \in { T(<< " " >>), T(<< "\t", " " >>) } }

RECURSIVE PairLists(_)
PairLists(n) ==
    IF n = 1 THEN { << d >> : d \in FirstPairs }
    ELSE { Append(ds, d) : ds \in PairLists(n - 1), d \in NextPairs }

\* one pair whose value fills the value buffer but for one byte, fills it,
\* and is one byte longer
LongPairs ==
    { << [ ws |-> << >>, name |-> T(<< "D", "C" >>), quoted |-> FALSE,
           value |-> Rep("x", n), pad |-> << >> ] >> :
        n \in { NameBufSize - 1, NameBufSize, NameBufSize + 1 } }

\* texts with one pair the parser is to refuse: a value that begins with '#',
\* a quoted value without its closing quote, a closing quote followed by
\* another character than a comma, a backslash before one hex digit only;
\* alone, or before, after or between pairs it accepts
RefusedPairs ==
    { T(<< "C", "N", "=" >>) \o v :
        v \in { T(<< "#", "x" >>), T(<< "#" >>),
                T(<< "\"", "x" >>), T(<< "\"" >>), T(<< "\"", "x", "\\", "\"" >>),
                T(<< "\"", "x", "\"", "b" >>), T(<< "\"", "x", "\"", " ", "b" >>),
                T(<< "\"", "x", "\"", " ", "=" >>),
                T(<< "x", "\\", "2" >>), T(<< "\\", "2", "x" >>) } }
PairsAround == { << >> } \cup { << d >> : d \in { f \in FirstPairs : f.pad = << >> /\ f.ws = << >> } }
RefusedInputs ==
    { [ op |-> "NameRead", kind |-> "refused", made |-> before \o after,
        str |-> (IF before = << >> THEN << >> ELSE PairsText(before) \o T(<< ",", " " >>))
                \o bad \o
                (IF after = << >> THEN << >> ELSE T(<< ",", " " >>) \o PairsText(after)) ] :
        before \in PairsAround, bad \in RefusedPairs, after \in PairsAround }

\* two pairs with a comma and no whitespace between them
TightInputs ==
    { [ op |-> "NameRead", kind |-> "tight", str |-> PairsText(<< d1, d2 >>), made |-> << d1, d2 >> ] :
        d1 \in { f \in FirstPairs : f.ws = << >> },
        d2 \in { WithWs(f, << >>) : f \in { g \in PairForms : g.pad = << >> } } }

NameReadInputs ==
    { [ op |-> "NameRead", kind |-> "pairs", str |-> PairsText(ds), made |-> ds ] :
        ds \in LongPairs \cup UNION { PairLists(n) : n \in 1..MaxPairs } }
    \cup RefusedInputs \cup TightInputs

\* the texts the string reader is run on, and the three ways it is called:
\* for a name, for a bare value and for a quoted value
StringChars == { Ch(c) : c \in { "x", " ", "\\", "2", "0", ",", "\"" } }
StringReadInputs ==
    { [ op |-> "NameStringRead", in |-> in, delim |-> m[1], ingoreTrailingSpaces |-> m[2] ] :
        in \in UNION { [ 1..n -> StringChars ] : n \in 0..MaxStr },
        m \in { << Ch("="), FALSE >>, << Ch(","), TRUE >>, << Ch("\""), TRUE >> } }

\* xmlSecNssX509NameRead, which writes the text again in a normal form into
\* retval, a buffer of size bytes; p is what it has written.  nss lines
\* 638-682: the value of a pair, str being what follows the name
NssValueRead(str, p) ==
    IF Len(str) = 0 THEN [ ret |-> 0, p |-> p, rest |-> str ]
    ELSE
        LET s1 == Tail(str)
        IN  IF Len(s1) > 0 /\ Head(s1) = Ch("\"") THEN
                LET v == NameStringRead(s1, NameBufSize, Ch("\""), TRUE)
                    p1 == p \o T(<< "\"" >>) \o v.out \o T(<< "\"" >>)
                    s2 == SkipSpaces(Drop(s1, v.ii))
                IN  IF v.ret < 0 THEN [ ret |-> 0 - 1, p |-> p ]
                    ELSE IF Len(s2) > 0 /\ Head(s2) # Ch(",") THEN [ ret |-> 0 - 1, p |-> p1 ]
                    ELSE [ ret |-> 0, p |-> p1, rest |-> IF Len(s2) > 0 THEN Tail(s2) ELSE s2 ]
            ELSE IF Len(s1) > 0 /\ Head(s1) = Ch("#") THEN [ ret |-> 0 - 1, p |-> p ]
            ELSE
                LET v == NameStringRead(s1, NameBufSize, Ch(","), TRUE)
                    s2 == Drop(s1, v.ii)
                IN  IF v.ret < 0 THEN [ ret |-> 0 - 1, p |-> p ]
                    ELSE [ ret |-> 0, rest |-> s2,
                           p |-> p \o v.out \o (IF Len(s2) > 0 THEN T(<< "," >>) ELSE << >>) ]

\* ub: the reader has written behind the end of retval
RECURSIVE NssNameReadLoop(_, _, _)
NssNameReadLoop(str, p, size) ==
    IF Len(str) = 0 THEN [ ok |-> TRUE, out |-> p, ub |-> Len(p) + 1 > size ]
    ELSE
        LET s1 == SkipSpaces(str)
            n == NameStringRead(s1, NameBufSize, Ch("="), FALSE)
            p1 == p \o n.out \o T(<< "=" >>)
            v == NssValueRead(Drop(s1, n.ii), p1)
        IN  IF n.ret < 0 THEN [ ok |-> FALSE, out |-> << >>, ub |-> Len(p) > size ]
            ELSE IF v.ret < 0 THEN [ ok |-> FALSE, out |-> << >>, ub |-> Len(v.p) > size ]
            ELSE NssNameReadLoop(AfterValue(v.rest), v.p, size)

NssNameRead(str) == NssNameReadLoop(str, << >>, Len(str) + 1)

\* the texts the NSS reader is run on
NssNameReadInputs ==
    { [ op |-> "NssNameRead", str |-> PairsText(ds), made |-> ds ] :
        ds \in UNION { PairLists(n) : n \in 1..MaxPairs } }

\* short texts of any shape, with '=' or without, for the NSS reader
NssTextChars == { Ch(c) : c \in { "x", "=", " ", ",", "\\", "2" } }
NssTextInputs ==
    { [ op |-> "NssNameReadText", str |-> str ] :
        str \in UNION { [ 1..n -> NssTextChars ] : n \in 0..MaxStr } }

InitParse ==
    /\ Quiet
    /\ fn \in { [ inp |-> inp, called |-> FALSE, res |-> << >> ] :
                   inp \in NameReadInputs \cup StringReadInputs \cup NssNameReadInputs
                           \cup NssTextInputs }

\* xmlSecOpenSSLX509NameRead(str)
NameReadCall ==
    /\ fn.inp.op = "NameRead"
    /\ ~fn.called
    /\ LET r == NameRead(fn.inp.str)
       IN  \E fault \in (IF r.ub THEN BOOLEAN ELSE { FALSE }) :
               fn' = [ fn EXCEPT !.called = TRUE,
                                 !.res = [ fault |-> fault, ok |-> ~fault /\ r.ok, ub |-> r.ub,
                                           nm |-> IF fault THEN << >> ELSE r.nm ] ]
    /\ UNCHANGED nonFnVars

\* xmlSecOpenSSLX509NameStringRead(&in, &inSize, out, sizeof(value), &outWritten, delim, ...)
NameStringReadCall ==
    /\ fn.inp.op = "NameStringRead"
    /\ ~fn.called
    /\ fn' = [ fn EXCEPT !.called = TRUE,
                         !.res = NameStringRead(fn.inp.in, NameBufSize, fn.inp.delim,
                                                fn.inp.ingoreTrailingSpaces) ]
    /\ UNCHANGED nonFnVars

\* xmlSecNssX509NameRead(str)
NssNameReadCall ==
    /\ fn.inp.op \in { "NssNameRead", "NssNameReadText" }
    /\ ~fn.called
    /\ LET r == NssNameRead(fn.inp.str)
       IN  \E fault \in (IF r.ub THEN BOOLEAN ELSE { FALSE }) :
               fn' = [ fn EXCEPT !.called = TRUE,
                                 !.res = [ fault |-> fault, ok |-> ~fault /\ r.ok, ub |-> r.ub,
                                           out |-> IF fault THEN << >> ELSE r.out ] ]
    /\ UNCHANGED nonFnVars

NextParse ==
    \/ NameReadCall
    \/ NameStringReadCall
    \/ NssNameReadCall

SpecParse == InitParse /\ [][NextParse]_vars

(***************************************************************************)
(* Certificate lookup: xmlSecOpenSSLX509FindCert.  A text or a byte string *)
(* that may be NULL is a sequence of length 0 (NULL) or 1.  An integer of  *)
(* any size (a BIGNUM, an ASN1_INTEGER) is the sequence of its bytes, the  *)
(* most significant first and not 0; the number 0 is the empty sequence.   *)
(***************************************************************************)
\* the text of a decimal number from its digits
Dec(ds) == [ k \in DOMAIN ds |-> 48 + ds[k] ]

\* n bytes b
Bytes(b, n) == [ k \in 1..n |-> b ]

Reverse(s) == [ k \in 1..Len(s) |-> s[Len(s) + 1 - k] ]

\* n * m + c for n given least significant byte first
RECURSIVE MulAdd(_, _, _)
MulAdd(n, m, c) ==
    IF Len(n) = 0 THEN (IF c = 0 THEN << >> ELSE << c % 256 >> \o MulAdd(n, m, c \div 256))
    ELSE << (Head(n) * m + c) % 256 >> \o MulAdd(Tail(n), m, (Head(n) * m + c) \div 256)

RECURSIVE DecValue(_, _)
DecValue(digits, acc) ==
    IF Len(digits) = 0 THEN acc
    ELSE DecValue(Tail(digits), MulAdd(acc, 10, Head(digits) - 48))

\* the digits a decimal text begins with
RECURSIVE LeadingDigits(_)
LeadingDigits(str) ==
    IF Len(str) > 0 /\ Head(str) \in 48..57 THEN << Head(str) >> \o LeadingDigits(Tail(str))
    ELSE << >>

\* BN_dec2bn followed by BN_to_ASN1_INTEGER: the number of characters read (0:
\* failure) and the integer
BigNumOf(digits) == [ ret |-> Len(digits), bn |-> Reverse(DecValue(digits, << >>)) ]
BN_dec2bn(str) == BigNumOf(LeadingDigits(str))

\* the object X509_NAME_add_entry_by_txt finds for an attribute name
OBJ_txt2obj(name) ==
    CASE name = T(<< "C", "N" >>) -> 1
      [] name = T(<< "O" >>) -> 2
      [] name = T(<< "D", "C" >>) -> 3
      [] name = T(<< "C" >>) -> 4
      [] OTHER -> 5

\* the X509_NAME of the pairs xmlSecOpenSSLX509NameRead has added
X509_NAME_of(nm) == [ k \in DOMAIN nm |-> Entry(OBJ_txt2obj(nm[k].name), nm[k].value) ]

\* for(i = 0; i < sk_X509_num(certs); ++i): the first certificate, from the
\* 0-based index ii, that the comparison hits
RECURSIVE ScanFrom(_, _, _)
ScanFrom(certList, hits, ii) ==
    IF ii >= Len(certList) THEN << >>
    ELSE IF hits[ii + 1] THEN << certList[ii + 1] >>
    ELSE ScanFrom(certList, hits, ii + 1)

\* Variant of the comparison of key identifiers that compares the first
\* skiSize bytes only
SkiMatchesNoLength(keyId, ski) ==
    /\ Len(keyId) >= Len(ski)
    /\ memcmp(SubSeq(keyId, 1, Len(ski)), ski) = 0

\* (keyId->length == skiLen) && (memcmp(keyId->data, ski, skiSize) == 0)
SkiMatches(keyId, ski) == Len(keyId) = Len(ski) /\ memcmp(keyId, ski) = 0

\* lines 852-882: the search by subject key identifier; a certificate without
\* the extension has ski = << >>
FindCertBySki(certList, ski) ==
    ScanFrom(certList,
             [ k \in DOMAIN certList |->
                 certList[k].ski # << >> /\ SkiMatches(certList[k].ski, ski) ], 0)

\* the outcome of one of the three searches: done when the function returns
\* from it, with cert (<< >> for NULL)
Returned(cert) == [ done |-> TRUE, cert |-> cert ]
Found(cert) == [ done |-> cert # << >>, cert |-> cert ]
NotTried == [ done |-> FALSE, cert |-> << >> ]

\* the function goes on to the next search when the one before has not returned
OrElse(first, next) == IF first.done THEN first ELSE next

\* lines 782-796, nm being what xmlSecOpenSSLX509NameRead has read
SubjectSearch(certList, r) ==
    IF ~r.ok THEN Returned(<< >>)
    ELSE Found(ScanFrom(certList,
                        [ k \in DOMAIN certList |->
                            NamesCompare(X509_NAME_of(r.nm), certList[k].subject) = 0 ], 0))

\* lines 806-849, bn being what BN_dec2bn has read
IssuerSerialSearch(certList, r, bn) ==
    IF ~r.ok THEN Returned(<< >>)
    ELSE IF bn.ret = 0 THEN Returned(<< >>)
    ELSE Found(ScanFrom(certList,
                        [ k \in DOMAIN certList |->
                            /\ certList[k].serial = bn.bn
                            /\ NamesCompare(X509_NAME_of(r.nm), certList[k].issuer) = 0 ], 0))

\* lines 778-797: the search by subject name
FindCertBySubject(certList, subjectName) ==
    IF subjectName # << >> THEN SubjectSearch(certList, NameRead(subjectName[1]))
    ELSE NotTried

\* lines 800-850: the search by issuer name and serial number
FindCertByIssuerSerial(certList, issuerName, issuerSerial) ==
    IF issuerName # << >> /\ issuerSerial # << >>
    THEN IssuerSerialSearch(certList, NameRead(issuerName[1]), BN_dec2bn(issuerSerial[1]))
    ELSE NotTried

\* lines 853-882
FindCertBySkiGiven(certList, ski) ==
    IF ski # << >> /\ Len(ski[1]) > 0 THEN Found(FindCertBySki(certList, ski[1]))
    ELSE NotTried

\* Variant of the lookup in which each criterion that is given decides alone
FindCertFirstGivenDecides(certList, subjectName, issuerName, issuerSerial, ski) ==
    IF subjectName # << >> THEN FindCertBySubject(certList, subjectName).cert
    ELSE IF issuerName # << >> /\ issuerSerial # << >>
    THEN FindCertByIssuerSerial(certList, issuerName, issuerSerial).cert
    ELSE FindCertBySkiGiven(certList, ski).cert

\* xmlSecOpenSSLX509FindCert: the certificate found, or << >> for NULL
FindCert(certList, subjectName, issuerName, issuerSerial, ski) ==
    OrElse(FindCertBySubject(certList, subjectName),
           OrElse(FindCertByIssuerSerial(certList, issuerName, issuerSerial),
                  FindCertBySkiGiven(certList, ski))).cert

\* the certificates, names, serial numbers and key identifiers of the lookups
NameX == << Entry(1, T(<< "x" >>)) >>
NameB == << Entry(1, T(<< "b" >>)) >>
NameOX == << Entry(2, T(<< "x" >>)) >>
FindCerts ==
    { [ id |-> "F1", subject |-> NameX, issuer |-> NameB, serial |-> << 1 >>, ski |-> << 170, 187 >> ],
      [ id |-> "F2", subject |-> NameB, issuer |-> NameB, serial |-> << 128 >>, ski |-> << 170 >> ],
      [ id |-> "F3", subject |-> NameX, issuer |-> NameX, serial |-> << 1, 0, 0, 0, 0, 0, 0, 0, 1 >>,
        ski |-> << >> ],
      [ id |-> "F4", subject |-> NameOX, issuer |-> NameB,
        serial |-> << 255, 255, 255, 255, 255, 255, 255, 255 >>, ski |-> << 170, 187 >> ] }

SubjectTexts ==
    { << >>, << T(<< "C", "N", "=", "x" >>) >>, << T(<< "C", "N", "=", "b" >>) >>,
      << T(<< "D", "C", "=", "x" >>) >>, << T(<< "C", "N", "=", "#", "x" >>) >> }
IssuerSerialTexts ==
    { << << >>, << >> >>,
      << << T(<< "C", "N", "=", "b" >>) >>, << >> >>,
      << << T(<< "C", "N", "=", "b" >>) >>, << Dec(<< 1 >>) >> >>,
      << << T(<< "C", "N", "=", "b" >>) >>, << Dec(<< 1, 2, 8 >>) >> >>,
      << << T(<< "C", "N", "=", "b" >>) >>, << T(<< "x" >>) >> >>,
      << << T(<< "C", "N", "=", "x" >>) >>,
         << Dec(<< 1, 8, 4, 4, 6, 7, 4, 4, 0, 7, 3, 7, 0, 9, 5, 5, 1, 6, 1, 7 >>) >> >>,
      << << T(<< "C", "N", "=", "b" >>) >>,
         << Dec(<< 1, 8, 4, 4, 6, 7, 4, 4, 0, 7, 3, 7, 0, 9, 5, 5, 1, 6, 1, 5 >>) >> >>,
      << << T(<< "C", "N", "=", "b" >>) >>,
         << Dec(<< 1, 8, 4, 4, 6, 7, 4, 4, 0, 7, 3, 7, 0, 9, 5, 5, 1, 6, 1, 7 >>) >> >> }
SkiBytes == { << >>, << << 170, 187 >> >>, << << 170 >> >>, << << 170, 187, 204 >> >>, << << 204 >> >> }

FindCertInputs ==
    { [ op |-> "FindCert", certs |-> cl, subjectName |-> s, issuerName |-> n[1],
        issuerSerial |-> n[2], ski |-> k ] :
        cl \in SeqsNoRep(FindCerts, MaxFindCerts), s \in SubjectTexts,
        n \in IssuerSerialTexts, k \in SkiBytes }

(***************************************************************************)
(* Certificate lookup: xmlSecNssX509FindCert.  The functions of the NSS    *)
(* library are outside the sources: its database is the sequence db of the *)
(* certificates it holds, a lookup in it may return any certificate that   *)
(* meets the key, and its reader of RFC 1485 names is taken to read a text *)
(* as the reader above does.  A PRUint64 is the sequence of its bytes as   *)
(* above, at most 8 of them.                                               *)
(***************************************************************************)
EmailAddressEq == T(<< "e", "m", "a", "i", "l", "A", "d", "d", "r", "e", "s", "s", "=" >>)

\* lines 423-425: every "emailAddress=" becomes "           E="
RECURSIVE ReplaceEmailAddress(_)
ReplaceEmailAddress(name2) ==
    IF Len(name2) < Len(EmailAddressEq) THEN name2
    ELSE IF SubSeq(name2, 1, Len(EmailAddressEq)) = EmailAddressEq
    THEN Rep(" ", 11) \o T(<< "E", "=" >>) \o ReplaceEmailAddress(Drop(name2, Len(EmailAddressEq)))
    ELSE << Head(name2) >> \o ReplaceEmailAddress(Tail(name2))

\* CERT_AsciiToName: << >> for NULL
AsciiName(r) == IF r.ok /\ r.nm # << >> THEN << X509_NAME_of(r.nm) >> ELSE << >>
CERT_AsciiToName(tmp) == AsciiName(NameRead(tmp))

\* lines 427-448, tmp being what xmlSecNssX509NameRead has returned
GetCertNameOf(tmp) == IF ~tmp.ok THEN << >> ELSE CERT_AsciiToName(tmp.out)

\* xmlSecNssGetCertName: << >> for NULL
xmlSecNssGetCertName(name) == GetCertNameOf(NssNameRead(ReplaceEmailAddress(name)))

\* the number without the bytes above the 64 bits of a PRUint64
RECURSIVE StripZeros(_)
StripZeros(bytes) ==
    IF Len(bytes) > 0 /\ Head(bytes) = 0 THEN StripZeros(Tail(bytes)) ELSE bytes

Low64(bytes) == IF Len(bytes) <= 8 THEN bytes ELSE StripZeros(SubSeq(bytes, Len(bytes) - 7, Len(bytes)))

\* the outcomes of the conversion of digits with the value given
ScannedAs(digits, value) ==
    IF Len(digits) = 0 THEN { [ ret |-> 0, issuerSN |-> << >> ] }
    ELSE IF Len(value) <= 8 THEN { [ ret |-> 1, issuerSN |-> value ] }
    ELSE { [ ret |-> 1, issuerSN |-> Low64(value) ],
           [ ret |-> 1, issuerSN |-> Bytes(255, 8) ] }

ScannedDigits(digits) == ScannedAs(digits, Reverse(DecValue(digits, << >>)))

\* PR_sscanf(issuerSerial, "%llu", &issuerSN): the outcomes, each the number of
\* items converted and the value stored.  The conversion of a number that does
\* not fit 64 bits is not defined; it stores the low 64 bits or the largest
\* value.
PR_sscanf_llu(str) == ScannedDigits(LeadingDigits(SkipSpaces(str)))

\* lines 796-806: the item, zeros_len being the index of the first byte of
\* bb[1..8] that is not 0, or 9
ItemFrom(bb, nonZero) ==
    SubSeq(bb, IF nonZero = {} THEN 9 ELSE CHOOSE k \in nonZero : \A j \in nonZero : k <= j, 9)

NumToItemOf(bb) == ItemFrom(bb, { k \in 1..8 : bb[k + 1] # 0 })

\* xmlSecNssNumToItem: the bytes of it->data
xmlSecNssNumToItem(ui) == NumToItemOf(<< 0 >> \o Bytes(0, 8 - Len(ui)) \o ui)

\* the contents of the DER INTEGER of a certificate's serial number
DerInteger(serial) ==
    IF Len(serial) = 0 THEN << 0 >>
    ELSE IF Head(serial) >= 128 THEN << 0 >> \o serial
    ELSE serial

CERT_FindCertByName(db, name) == { c \in Range(db) : c.subject = name }

CERT_FindCertByIssuerAndSN(db, derIssuer, serialNumber) ==
    { c \in Range(db) : c.issuer = derIssuer /\ DerInteger(c.serial) = serialNumber }

CERT_FindCertBySubjectKeyID(db, subjKeyID) ==
    { c \in Range(db) : c.ski # << >> /\ c.ski = subjKeyID }

\* lines 559-586: the scan of the list; CERT_FindSubjectKeyIDExtension fails
\* on a certificate without the extension
RECURSIVE NssScanList(_, _)
NssScanList(certsList, subjKeyID) ==
    IF Len(certsList) = 0 THEN << >>
    ELSE IF Head(certsList).ski = << >> THEN << >>
    ELSE IF Len(Head(certsList).ski) = Len(subjKeyID) /\ memcmp(Head(certsList).ski, subjKeyID) = 0
    THEN << Head(certsList) >>
    ELSE NssScanList(Tail(certsList), subjKeyID)

\* the outcomes of a search of the database: any certificate it has found, or
\* the outcome given when it has found none
AnyOf(found, none) == IF found # {} THEN { Found(<< c >>) : c \in found } ELSE none

\* the lookup goes on to the next search when cert is still NULL and the one
\* before has not gone to done
NssOrElse(firsts, nexts) == UNION { IF f.done THEN { f } ELSE nexts : f \in firsts }

\* lines 468-491, name being what xmlSecNssGetCertName has returned
NssSubjectSearch(db, name) ==
    IF name = << >> THEN { Returned(<< >>) }
    ELSE AnyOf(CERT_FindCertByName(db, name[1]), { NotTried })

\* lines 528-542, scan being an outcome of PR_sscanf
NssSerialSearch(db, name, scan) ==
    IF scan.ret # 1 THEN { Returned(<< >>) }
    ELSE AnyOf(CERT_FindCertByIssuerAndSN(db, name[1], xmlSecNssNumToItem(scan.issuerSN)), { NotTried })

\* lines 499-542, name being what xmlSecNssGetCertName has returned
NssIssuerSerialSearch(db, name, scans) ==
    IF name = << >> THEN { Returned(<< >>) }
    ELSE UNION { NssSerialSearch(db, name, scan) : scan \in scans }

\* lines 467-492: the outcomes of the search by subject name
NssFindCertBySubject(db, subjectName) ==
    IF subjectName # << >> THEN NssSubjectSearch(db, xmlSecNssGetCertName(subjectName[1]))
    ELSE { NotTried }

\* lines 494-543: the outcomes of the search by issuer name and serial number
NssFindCertByIssuerSerial(db, issuerName, issuerSerial) ==
    IF issuerName # << >> /\ issuerSerial # << >>
    THEN NssIssuerSerialSearch(db, xmlSecNssGetCertName(issuerName[1]), PR_sscanf_llu(issuerSerial[1]))
    ELSE { NotTried }

\* lines 545-587: the outcomes of the search by subject key identifier
NssFindCertBySki(db, certsList, ski) ==
    IF ski # << >> /\ Len(ski[1]) > 0
    THEN AnyOf(CERT_FindCertBySubjectKeyID(db, ski[1]), { Found(NssScanList(certsList, ski[1])) })
    ELSE { NotTried }

\* xmlSecNssX509FindCert: the outcomes, each the certificate found or << >>
NssFindCert(db, certsList, subjectName, issuerName, issuerSerial, ski) ==
    { f.cert : f \in NssOrElse(NssFindCertBySubject(db, subjectName),
                               NssOrElse(NssFindCertByIssuerSerial(db, issuerName, issuerSerial),
                                         NssFindCertBySki(db, certsList, ski))) }

NssFindCertInputs ==
    { [ op |-> "NssFindCert", db |-> db, certs |-> cl, subjectName |-> s, issuerName |-> n[1],
        issuerSerial |-> n[2], ski |-> k ] :
        cl \in SeqsNoRep(FindCerts, MaxFindCerts), db \in SeqsNoRep(FindCerts, MaxDbCerts),
        s \in SubjectTexts, n \in IssuerSerialTexts, k \in SkiBytes }

\* the serial texts and the numbers of the conversions run on their own
SerialTexts ==
    { Dec(<< 0 >>), Dec(<< 1 >>), Dec(<< 1, 2, 7 >>), Dec(<< 1, 2, 8 >>), Dec(<< 2, 5, 6 >>),
      Dec(<< 1, 8, 4, 4, 6, 7, 4, 4, 0, 7, 3, 7, 0, 9, 5, 5, 1, 6, 1, 5 >>),
      Dec(<< 1, 8, 4, 4, 6, 7, 4, 4, 0, 7, 3, 7, 0, 9, 5, 5, 1, 6, 1, 6 >>),
      Dec(<< 1, 8, 4, 4, 6, 7, 4, 4, 0, 7, 3, 7, 0, 9, 5, 5, 1, 6, 1, 7 >>),
      T(<< "x" >>), T(<< " ", "1" >>), T(<< "1", "x" >>) }
Numbers ==
    { << >>, << 1 >>, << 127 >>, << 128 >>, << 255 >>, << 1, 0 >>, << 128, 0 >>,
      << 1, 0, 0, 0, 0, 0, 0, 0 >>, << 128, 0, 0, 0, 0, 0, 0, 0 >>, Bytes(255, 8) }
SerialInputs ==
    { [ op |-> op, str |-> t ] : op \in { "BN_dec2bn", "PR_sscanf" }, t \in SerialTexts }
        \cup { [ op |-> "NumToItem", ui |-> n ] : n \in Numbers }

InitFind ==
    /\ Quiet
    /\ fn \in { [ inp |-> inp, called |-> FALSE, res |-> << >> ] :
                   inp \in FindCertInputs \cup NssFindCertInputs \cup SerialInputs }

\* xmlSecOpenSSLX509FindCert(certs, subjectName, issuerName, issuerSerial, ski, skiSize)
FindCertCall ==
    /\ fn.inp.op = "FindCert"
    /\ ~fn.called
    /\ fn' = [ fn EXCEPT !.called = TRUE,
                         !.res = FindCert(fn.inp.certs, fn.inp.subjectName, fn.inp.issuerName,
                                          fn.inp.issuerSerial, fn.inp.ski) ]
    /\ UNCHANGED nonFnVars

\* xmlSecNssX509FindCert(certsList, subjectName, issuerName, issuerSerial, ski, skiSize)
NssFindCertCall ==
    /\ fn.inp.op = "NssFindCert"
    /\ ~fn.called
    /\ \E cert \in NssFindCert(fn.inp.db, fn.inp.certs, fn.inp.subjectName, fn.inp.issuerName,
                                fn.inp.issuerSerial, fn.inp.ski) :
           fn' = [ fn EXCEPT !.called = TRUE, !.res = cert ]
    /\ UNCHANGED nonFnVars

SerialReadAs(bn) == [ ok |-> bn.ret # 0, value |-> bn.bn ]

\* lines 819-826: BN_dec2bn(&bn, issuerSerial) and BN_to_ASN1_INTEGER(bn, NULL)
SerialReadCall ==
    /\ fn.inp.op = "BN_dec2bn"
    /\ ~fn.called
    /\ fn' = [ fn EXCEPT !.called = TRUE,
                         !.res = SerialReadAs(BN_dec2bn(fn.inp.str)) ]
    /\ UNCHANGED nonFnVars

\* lines 527-532: PR_sscanf(issuerSerial, "%llu", &issuerSN)
NssSerialReadCall ==
    /\ fn.inp.op = "PR_sscanf"
    /\ ~fn.called
    /\ \E scan \in PR_sscanf_llu(fn.inp.str) :
           fn' = [ fn EXCEPT !.called = TRUE,
                             !.res = [ ok |-> scan.ret = 1, value |-> scan.issuerSN ] ]
    /\ UNCHANGED nonFnVars

\* xmlSecNssNumToItem(it, ui)
NumToItemCall ==
    /\ fn.inp.op = "NumToItem"
    /\ ~fn.called
    /\ fn' = [ fn EXCEPT !.called = TRUE, !.res = xmlSecNssNumToItem(fn.inp.ui) ]
    /\ UNCHANGED nonFnVars

NextFind ==
    \/ FindCertCall
    \/ NssFindCertCall
    \/ SerialReadCall
    \/ NssSerialReadCall
    \/ NumToItemCall

SpecFind == InitFind /\ [][NextFind]_vars

(***************************************************************************)
(* The base64 encoder of base64.c.  The context is the record of the       *)
(* fields of struct _xmlSecBase64Ctx an encoding uses; out holds the       *)
(* outPos bytes waiting in ctx->out.                                        *)
(***************************************************************************)
\* the table base64[]
Base64Table(n) ==
    IF n < 26 THEN 65 + n
    ELSE IF n < 52 THEN 97 + (n - 26)
    ELSE IF n < 62 THEN 48 + (n - 52)
    ELSE IF n = 62 THEN 43
    ELSE 47

xmlSecBase64Min(a, b) == IF a < b THEN a ELSE b
xmlSecBase64Encode1(a) == Base64Table((a \div 4) % 64)
xmlSecBase64Encode2(a, b) == Base64Table(((a % 4) * 16) + ((b \div 16) % 16))
xmlSecBase64Encode3(b, c) == Base64Table(((b % 16) * 4) + ((c \div 64) % 4))
xmlSecBase64Encode4(c) == Base64Table(c % 64)

\* the macros xmlSecBase64Decode1..3, the result stored in an unsigned char
xmlSecBase64Decode1(a, b) == ((a * 4) + ((b % 64) \div 16)) % 256
xmlSecBase64Decode2(b, c) == ((b * 16) + ((c % 64) \div 4)) % 256
xmlSecBase64Decode3(c, d) == ((c * 64) + (d % 64)) % 256

xmlSecIsBase64Char(ch) ==
    \/ ch >= 65 /\ ch <= 90
    \/ ch >= 97 /\ ch <= 122
    \/ ch >= 48 /\ ch <= 57
    \/ ch = 43
    \/ ch = 47

\* Variant of the test for white space that does not take the line feed
xmlSecIsBase64SpaceNoLineFeed(ch) == ch \in { 32, 9, 13 }

xmlSecIsBase64Space(ch) == ch \in { 32, 9, 13, 10 }

\* xmlSecBase64CtxCreate(encode, columns)
xmlSecBase64CtxCreate(encode, columns) ==
    [ encode |-> encode, in |-> << 0, 0, 0, 0 >>, out |-> << >>, inPos |-> 0,
      linePos |-> 0, columns |-> columns, equalSigns |-> 0 ]

\* one of the four writes of xmlSecBase64CtxEncode, with the line break in
\* front of it
CtxEncodePut(b64, ch) ==
    LET broken == IF b64.columns > 0 /\ b64.columns <= b64.linePos
                  THEN [ b64 EXCEPT !.out = Append(@, 10), !.linePos = 0 ]
                  ELSE b64
    IN  [ broken EXCEPT !.linePos = @ + 1, !.out = Append(@, ch) ]

\* xmlSecBase64CtxEncode: the context after it
xmlSecBase64CtxEncode(b64) ==
    IF Len(b64.out) > 0 THEN b64
    ELSE IF b64.inPos = 0 THEN b64
    ELSE
        LET c1 == CtxEncodePut(b64, xmlSecBase64Encode1(b64.in[1]))
            c2 == CtxEncodePut(c1, xmlSecBase64Encode2(b64.in[1], b64.in[2]))
            c3 == CtxEncodePut(c2, IF b64.inPos > 1 THEN xmlSecBase64Encode3(b64.in[2], b64.in[3])
                                   ELSE Ch("="))
            c4 == CtxEncodePut(c3, IF b64.inPos > 2 THEN xmlSecBase64Encode4(b64.in[3]) ELSE Ch("="))
        IN  [ c4 EXCEPT !.inPos = 0 ]

\* lines 374-381 of xmlSecBase64CtxDecode: the bytes decoded from ctx->in
CtxDecoded(b64) ==
    << xmlSecBase64Decode1(b64.in[1], b64.in[2]) >>
    \o (IF b64.inPos > 2 THEN << xmlSecBase64Decode2(b64.in[2], b64.in[3]) >> ELSE << >>)
    \o (IF b64.inPos > 3 THEN << xmlSecBase64Decode3(b64.in[3], b64.in[4]) >> ELSE << >>)

\* xmlSecBase64CtxDecode: the value returned and the context after it
xmlSecBase64CtxDecode(b64) ==
    IF Len(b64.out) > 0 THEN [ ret |-> Len(b64.out), ctx |-> b64 ]
    ELSE IF b64.inPos = 0 THEN [ ret |-> 0, ctx |-> b64 ]
    ELSE IF b64.inPos < 2 THEN [ ret |-> 0 - 1, ctx |-> b64 ]
    ELSE [ ret |-> b64.inPos - 1, ctx |-> [ b64 EXCEPT !.out = CtxDecoded(b64), !.inPos = 0 ] ]

\* lines 423-433: the value of a base64 character
Base64Value(ch) ==
    IF ch >= 65 /\ ch <= 90 THEN ch - 65
    ELSE IF ch >= 97 /\ ch <= 122 THEN 26 + (ch - 97)
    ELSE IF ch >= 48 /\ ch <= 57 THEN 52 + (ch - 48)
    ELSE IF ch = 43 THEN 62
    ELSE 63

\* Variant of the loop of lines 407-444 that goes on while inPos is not
\* above the size of ctx->in
RECURSIVE CtxPushDecodeUpToSize(_, _, _)
CtxPushDecodeUpToSize(b64, in, inPos) ==
    IF inPos < Len(in) /\ b64.inPos <= 4 THEN
        IF b64.equalSigns > 0 THEN
            IF in[inPos + 1] = Ch("=") /\ b64.equalSigns < 2
            THEN CtxPushDecodeUpToSize([ b64 EXCEPT !.equalSigns = @ + 1 ], in, inPos + 1)
            ELSE IF ~xmlSecIsBase64Space(in[inPos + 1]) THEN [ ret |-> 0 - 1, ctx |-> b64 ]
            ELSE CtxPushDecodeUpToSize(b64, in, inPos + 1)
        ELSE IF in[inPos + 1] = Ch("=")
        THEN CtxPushDecodeUpToSize([ b64 EXCEPT !.equalSigns = @ + 1 ], in, inPos + 1)
        ELSE IF xmlSecIsBase64Char(in[inPos + 1])
        THEN CtxPushDecodeUpToSize([ b64 EXCEPT !.in = [ k \in 1..4 |->
                                                         IF k = b64.inPos + 1
                                                         THEN Base64Value(in[inPos + 1])
                                                         ELSE b64.in[k] ],
                                                !.inPos = @ + 1 ], in, inPos + 1)
        ELSE IF ~xmlSecIsBase64Space(in[inPos + 1]) THEN [ ret |-> 0 - 1, ctx |-> b64 ]
        ELSE CtxPushDecodeUpToSize(b64, in, inPos + 1)
    ELSE [ ret |-> inPos, ctx |-> b64 ]

\* lines 407-444: the loop of xmlSecBase64CtxPush over the characters of a
\* decoding context, inPos of them taken so far
RECURSIVE CtxPushDecode(_, _, _)
CtxPushDecode(b64, in, inPos) ==
    IF inPos < Len(in) /\ b64.inPos < 4 THEN
        IF b64.equalSigns > 0 THEN
            IF in[inPos + 1] = Ch("=") /\ b64.equalSigns < 2
            THEN CtxPushDecode([ b64 EXCEPT !.equalSigns = @ + 1 ], in, inPos + 1)
            ELSE IF ~xmlSecIsBase64Space(in[inPos + 1]) THEN [ ret |-> 0 - 1, ctx |-> b64 ]
            ELSE CtxPushDecode(b64, in, inPos + 1)
        ELSE IF in[inPos + 1] = Ch("=")
        THEN CtxPushDecode([ b64 EXCEPT !.equalSigns = @ + 1 ], in, inPos + 1)
        ELSE IF xmlSecIsBase64Char(in[inPos + 1])
        THEN CtxPushDecode([ b64 EXCEPT !.in[b64.inPos + 1] = Base64Value(in[inPos + 1]),
                                        !.inPos = @ + 1 ], in, inPos + 1)
        ELSE IF ~xmlSecIsBase64Space(in[inPos + 1]) THEN [ ret |-> 0 - 1, ctx |-> b64 ]
        ELSE CtxPushDecode(b64, in, inPos + 1)
    ELSE [ ret |-> inPos, ctx |-> b64 ]

\* lines 397-401: the bytes an encoding context takes
CtxPushEncode(b64, in, inBlockSize) ==
    [ ret |-> inBlockSize,
      ctx |-> [ b64 EXCEPT !.inPos = @ + inBlockSize,
                           !.in = [ k \in 1..4 |->
                                      IF k > b64.inPos /\ k <= b64.inPos + inBlockSize
                                      THEN in[k - b64.inPos] ELSE b64.in[k] ] ] ]

\* xmlSecBase64CtxPush: the context and the number of bytes taken, or -1
xmlSecBase64CtxPush(b64, in) ==
    IF b64.encode THEN
        IF b64.inPos < 3 /\ Len(in) > 0
        THEN CtxPushEncode(b64, in, xmlSecBase64Min(Len(in), 3 - b64.inPos))
        ELSE [ ret |-> 0, ctx |-> b64 ]
    ELSE CtxPushDecode(b64, in, 0)

\* lines 460-476: the encoding or decoding xmlSecBase64CtxPop starts with
CtxPopConvert(b64, final) ==
    IF Len(b64.out) = 0 /\ (b64.inPos >= (IF b64.encode THEN 3 ELSE 4) \/ final)
    THEN IF b64.encode THEN [ ret |-> 0, ctx |-> xmlSecBase64CtxEncode(b64) ]
         ELSE xmlSecBase64CtxDecode(b64)
    ELSE [ ret |-> 0, ctx |-> b64 ]

\* lines 478-486: the bytes xmlSecBase64CtxPop copies to out
CtxPopCopy(done, outBlockSize) ==
    [ ret |-> outBlockSize,
      out |-> SubSeq(done.out, 1, outBlockSize),
      ctx |-> [ done EXCEPT !.out = Drop(@, outBlockSize) ] ]

CtxPopAfter(conv, outSize) ==
    IF conv.ret < 0 THEN [ ret |-> 0 - 1, out |-> << >>, ctx |-> conv.ctx ]
    ELSE CtxPopCopy(conv.ctx, xmlSecBase64Min(Len(conv.ctx.out), outSize))

\* xmlSecBase64CtxPop: the value returned, the context and the bytes copied
\* to out
xmlSecBase64CtxPop(b64, outSize, final) == CtxPopAfter(CtxPopConvert(b64, final), outSize)

\* xmlSecBase64CtxUpdate: the value returned, the context and the bytes
\* written
RECURSIVE xmlSecBase64CtxUpdate(_, _, _, _)
CtxUpdatePopped(popped, in, outSize, written) ==
    IF popped.ret < 0 THEN [ ret |-> 0 - 1, ctx |-> popped.ctx, out |-> written ]
    ELSE IF popped.ret = 0 THEN [ ret |-> Len(written), ctx |-> popped.ctx, out |-> written ]
    ELSE xmlSecBase64CtxUpdate(popped.ctx, in, outSize - popped.ret, written \o popped.out)

CtxUpdatePushed(pushed, in, outSize, written) ==
    IF pushed.ret < 0 THEN [ ret |-> 0 - 1, ctx |-> pushed.ctx, out |-> written ]
    ELSE CtxUpdatePopped(xmlSecBase64CtxPop(pushed.ctx, outSize, FALSE),
                         Drop(in, pushed.ret), outSize, written)

xmlSecBase64CtxUpdate(b64, in, outSize, written) ==
    IF Len(in) > 0 /\ outSize > 0
    THEN CtxUpdatePushed(xmlSecBase64CtxPush(b64, in), in, outSize, written)
    ELSE [ ret |-> Len(written), ctx |-> b64, out |-> written ]

\* lines 622-646 of xmlSecBase64CtxFinal: the loop, and the test of the size
\* after it
RECURSIVE CtxFinalLoop(_, _, _)
CtxFinalPopped(popped, outLen, written) ==
    IF popped.ret < 0 THEN [ ret |-> 0 - 1, ctx |-> popped.ctx, out |-> written ]
    ELSE IF popped.ret = 0 THEN [ ret |-> Len(written), ctx |-> popped.ctx, out |-> written ]
    ELSE CtxFinalLoop(popped.ctx, outLen, written \o popped.out)

CtxFinalLoop(b64, outLen, written) ==
    IF Len(written) < outLen
    THEN CtxFinalPopped(xmlSecBase64CtxPop(b64, outLen - Len(written), TRUE), outLen, written)
    ELSE [ ret |-> Len(written), ctx |-> b64, out |-> written ]

CtxFinalSized(looped, outLen) ==
    IF looped.ret < 0 THEN looped
    ELSE IF looped.ret >= outLen THEN [ looped EXCEPT !.ret = 0 - 1 ]
    ELSE looped

\* xmlSecBase64CtxFinal: the value returned, the context and the bytes written
xmlSecBase64CtxFinal(b64, outLen) ==
    IF ~(outLen > 0) THEN [ ret |-> 0 - 1, ctx |-> b64, out |-> << >> ]
    ELSE CtxFinalSized(CtxFinalLoop(b64, outLen, << >>), outLen)

\* lines 706-733 of xmlSecBase64Encode
EncodeFinal(update, final) ==
    IF final.ret < 0 THEN << >> ELSE << update.out \o final.out >>

EncodeUpdated(update, size) ==
    IF update.ret < 0 THEN << >>
    ELSE EncodeFinal(update, xmlSecBase64CtxFinal(update.ctx, size - update.ret))

EncodeSized(buf, columns, size) ==
    EncodeUpdated(xmlSecBase64CtxUpdate(xmlSecBase64CtxCreate(TRUE, columns), buf, size, << >>), size)

\* lines 690-693: the size of the result buffer
EncodeSize(len, columns) ==
    IF columns > 0
    THEN ((((4 * len) \div 3) + 4) + ((((4 * len) \div 3) + 4) \div columns)) + 4
    ELSE ((4 * len) \div 3) + 4

\* xmlSecBase64Encode(buf, len, columns): << >> for NULL, else the string
xmlSecBase64Encode(buf, columns) == EncodeSized(buf, columns, EncodeSize(Len(buf), columns))

\* lines 768-793 of xmlSecBase64Decode
DecodeFinal(update, final) ==
    IF final.ret < 0 THEN [ ret |-> 0 - 1, buf |-> update.out \o final.out ]
    ELSE [ ret |-> update.ret + final.ret, buf |-> update.out \o final.out ]

DecodeUpdated(update, len) ==
    IF update.ret < 0 THEN [ ret |-> 0 - 1, buf |-> update.out ]
    ELSE DecodeFinal(update, xmlSecBase64CtxFinal(update.ctx, len - update.ret))

\* xmlSecBase64Decode(str, buf, len): the value returned and the bytes written
\* to buf
xmlSecBase64Decode(str, len) ==
    DecodeUpdated(xmlSecBase64CtxUpdate(xmlSecBase64CtxCreate(FALSE, 0), str, len, << >>), len)

\* the buffers and line lengths the encoder is run on, with the room the
\* decoder of the result is given beyond the length of the buffer
Base64Bytes == { 0, 77, 255 }
RECURSIVE Buffers(_)
Buffers(n) ==
    IF n = 0 THEN { << >> }
    ELSE Buffers(n - 1) \cup { Append(b, c) : b \in { s \in Buffers(n - 1) : Len(s) = n - 1 },
                                              c \in Base64Bytes }
Base64Inputs ==
    { [ op |-> "Base64Encode", buf |-> buf, columns |-> columns, extra |-> extra ] :
        buf \in Buffers(MaxBuf), columns \in { 0, 1, 4 }, extra \in { 0, 1, 3 } }

\* the strings the decoder is run on: A, /, =, a line feed and *, which is no
\* base64 character, alone and after a full group
Base64Chars == { 65, 47, 61, 10, 42 }
RECURSIVE Strings64(_)
Strings64(n) ==
    IF n = 0 THEN { << >> }
    ELSE Strings64(n - 1) \cup { Append(s, c) : s \in { t \in Strings64(n - 1) : Len(t) = n - 1 },
                                                c \in Base64Chars }
Base64DecodeInputs ==
    { [ op |-> "Base64Decode", str |-> group \o str, len |-> len ] :
        group \in { << >>, << 65, 47, 65, 47 >> }, str \in Strings64(MaxStr64), len \in 0..MaxDecodeLen }

InitBase64 ==
    /\ Quiet
    /\ fn \in { [ inp |-> inp, called |-> FALSE, res |-> << >>, dec |-> << >> ] :
                  inp \in Base64Inputs \cup Base64DecodeInputs }

\* xmlSecBase64Encode(buf, len, columns)
Base64EncodeCall ==
    /\ fn.inp.op = "Base64Encode"
    /\ ~fn.called
    /\ fn' = [ fn EXCEPT !.called = TRUE, !.res = xmlSecBase64Encode(fn.inp.buf, fn.inp.columns) ]
    /\ UNCHANGED nonFnVars

\* xmlSecBase64Decode(str, buf, len) of the string xmlSecBase64Encode has
\* returned
Base64DecodeEncodedCall ==
    /\ fn.inp.op = "Base64Encode"
    /\ fn.called
    /\ fn.res # << >>
    /\ fn.dec = << >>
    /\ fn' = [ fn EXCEPT !.dec = << xmlSecBase64Decode(fn.res[1], Len(fn.inp.buf) + fn.inp.extra) >> ]
    /\ UNCHANGED nonFnVars

\* xmlSecBase64Decode(str, buf, len)
Base64DecodeCall ==
    /\ fn.inp.op = "Base64Decode"
    /\ ~fn.called
    /\ fn' = [ fn EXCEPT !.called = TRUE, !.dec = << xmlSecBase64Decode(fn.inp.str, fn.inp.len) >> ]
    /\ UNCHANGED nonFnVars

NextBase64 ==
    \/ Base64EncodeCall
    \/ Base64DecodeEncodedCall
    \/ Base64DecodeCall

SpecBase64 == InitBase64 /\ [][NextBase64]_vars

(***************************************************************************)
(* A base64 context over several calls of xmlSecBase64CtxUpdate and        *)
(* xmlSecBase64CtxFinal.  fn.b64 is the context; fn.at is the place of     *)
(* the running call (the push or the pop of the loop of Update, the loop   *)
(* of Final), fn.in and fn.outSize what is left of its buffers, fn.res     *)
(* the number of bytes it has written and fn.ret what the last call has    *)
(* returned.                                                               *)
(***************************************************************************)
CtxChars == { 65, 61, 10, 42 }
CtxTexts == UNION { [ 1..n -> CtxChars ] : n \in 0..MaxCtxIn }
CtxBytes == UNION { [ 1..n -> { 0, 255 } ] : n \in 0..MaxCtxIn }
CtxOutSizes == { 1, 3, 20 }
CtxInputs(encode) == IF encode THEN CtxBytes ELSE CtxTexts

InitCtx ==
    /\ Quiet
    /\ fn \in { [ inp |-> [ op |-> "Ctx" ], b64 |-> xmlSecBase64CtxCreate(encode, columns),
                  at |-> "idle", in |-> << >>, outSize |-> 0, res |-> 0, ret |-> 0,
                  calls |-> 0 ] :
                  encode \in BOOLEAN, columns \in { 0, 1, 4 } }

\* the call returns value
CtxReturn(b64, value) ==
    [ fn EXCEPT !.b64 = b64, !.at = "idle", !.in = << >>, !.outSize = 0, !.res = 0, !.ret = value ]

\* xmlSecBase64CtxUpdate(ctx, in, inSize, out, outSize) is called
CtxUpdateBegin(in, outSize) ==
    /\ fn.inp.op = "Ctx"
    /\ fn.at = "idle"
    /\ fn.calls < MaxCtxCalls
    /\ fn' = [ fn EXCEPT !.at = "push", !.in = in, !.outSize = outSize, !.res = 0,
                         !.calls = @ + 1 ]
    /\ UNCHANGED nonFnVars

\* lines 566-577: the test of the loop and the push
CtxUpdatePush ==
    /\ fn.inp.op = "Ctx"
    /\ fn.at = "push"
    /\ fn' = IF Len(fn.in) > 0 /\ fn.outSize > 0
             THEN LET pushed == xmlSecBase64CtxPush(fn.b64, fn.in)
                  IN  IF pushed.ret < 0 THEN CtxReturn(pushed.ctx, 0 - 1)
                      ELSE [ fn EXCEPT !.b64 = pushed.ctx, !.in = Drop(@, pushed.ret),
                                       !.at = "pop" ]
             ELSE CtxReturn(fn.b64, fn.res)
    /\ UNCHANGED nonFnVars

\* lines 579-593: the pop
CtxUpdatePop ==
    /\ fn.inp.op = "Ctx"
    /\ fn.at = "pop"
    /\ fn' = LET popped == xmlSecBase64CtxPop(fn.b64, fn.outSize, FALSE)
             IN  IF popped.ret < 0 THEN CtxReturn(popped.ctx, 0 - 1)
                 ELSE IF popped.ret = 0 THEN CtxReturn(popped.ctx, fn.res)
                 ELSE [ fn EXCEPT !.b64 = popped.ctx, !.outSize = @ - popped.ret,
                                  !.res = @ + popped.ret, !.at = "push" ]
    /\ UNCHANGED nonFnVars

\* xmlSecBase64CtxFinal(ctx, out, outLen) is called; line 620 refuses an
\* empty buffer
CtxFinalBegin(outLen) ==
    /\ fn.inp.op = "Ctx"
    /\ fn.at = "idle"
    /\ fn.calls < MaxCtxCalls
    /\ fn' = IF outLen > 0
             THEN [ fn EXCEPT !.at = "final", !.outSize = outLen, !.res = 0, !.calls = @ + 1 ]
             ELSE [ fn EXCEPT !.ret = 0 - 1, !.calls = @ + 1 ]
    /\ UNCHANGED nonFnVars

\* lines 622-651: one round of the loop of Final, or the end of the call
CtxFinalPop ==
    /\ fn.inp.op = "Ctx"
    /\ fn.at = "final"
    /\ fn' = IF fn.res < fn.outSize
             THEN LET popped == xmlSecBase64CtxPop(fn.b64, fn.outSize - fn.res, TRUE)
                  IN  IF popped.ret < 0 THEN CtxReturn(popped.ctx, 0 - 1)
                      ELSE IF popped.ret = 0 THEN CtxReturn(popped.ctx, fn.res)
                      ELSE [ fn EXCEPT !.b64 = popped.ctx, !.res = @ + popped.ret ]
             ELSE CtxReturn(fn.b64, 0 - 1)
    /\ UNCHANGED nonFnVars

NextCtx ==
    \/ \E in \in CtxInputs(fn.b64.encode), outSize \in CtxOutSizes : CtxUpdateBegin(in, outSize)
    \/ CtxUpdatePush
    \/ CtxUpdatePop
    \/ \E outLen \in { 0 } \cup CtxOutSizes : CtxFinalBegin(outLen)
    \/ CtxFinalPop

SpecCtx == InitCtx /\ [][NextCtx]_vars

(***************************************************************************)
(* The MSCng signature transform (src/src/mscng/signatures.c).  A          *)
(* transform is its operation, its status and the sizes of its inBuf and   *)
(* outBuf.  fails names the library call that fails in a call of Execute   *)
(* ("none": every call succeeds); nt is the status BCryptVerifySignature   *)
(* returns.                                                                *)
(***************************************************************************)
SigTransform(operation) ==
    [ operation |-> operation, status |-> "None", inBuf |-> 0, outBuf |-> 0 ]

SigSetupCalls == { "BCryptOpenAlgorithmProvider", "BCryptGetProperty", "xmlMalloc",
                   "BCryptCreateHash" }
SigHashCalls == { "BCryptHashData", "xmlSecBufferRemoveHead" }
SigSizeCalls == { "BCryptFinishHash", "xmlSecMSCngKeyDataGetPrivKey", "NCryptSignHash(size)",
                  "xmlSecBufferSetSize" }
SigLibCalls == SigSetupCalls \cup SigHashCalls \cup SigSizeCalls \cup { "NCryptSignHash" }

SigReturn(value, transform, error) == [ ret |-> value, transform |-> transform, err |-> error ]

\* lines 686-694: the status the call ends in
SigExecuteEnd(t) ==
    IF t.status \in { "Working", "Finished" }
    THEN IF t.inBuf = 0 THEN SigReturn(0, t, "none")
         ELSE SigReturn(0 - 1, t, "XMLSEC_ERRORS_R_ASSERT")
    ELSE SigReturn(0 - 1, t, "XMLSEC_ERRORS_R_INVALID_STATUS")

\* lines 607-683: the last call closes the hash and, to sign, writes the
\* signature to outBuf
SigExecuteLast(t, last, fails) ==
    IF ~last THEN SigExecuteEnd(t)
    ELSE IF fails = "BCryptFinishHash" THEN SigReturn(0 - 1, t, fails)
    ELSE IF t.operation = "Sign"
    THEN IF fails \in SigSizeCalls THEN SigReturn(0 - 1, t, fails)
         ELSE IF fails = "NCryptSignHash"
         THEN SigReturn(0 - 1, [ t EXCEPT !.outBuf = SigSize ], fails)
         ELSE SigExecuteEnd([ t EXCEPT !.outBuf = SigSize, !.status = "Finished" ])
    ELSE SigExecuteEnd([ t EXCEPT !.status = "Finished" ])

\* lines 582-605: the data of inBuf goes to the hash
SigExecuteWorking(t, last, fails) ==
    IF t.status # "Working" THEN SigExecuteEnd(t)
    ELSE IF t.inBuf > 0
    THEN IF t.outBuf # 0 THEN SigReturn(0 - 1, t, "XMLSEC_ERRORS_R_ASSERT")
         ELSE IF fails \in SigHashCalls THEN SigReturn(0 - 1, t, fails)
         ELSE SigExecuteLast([ t EXCEPT !.inBuf = 0 ], last, fails)
    ELSE SigExecuteLast(t, last, fails)

\* Variant of xmlSecMSCngSignatureExecute that starts over from a status
\* past Finished
xmlSecMSCngSignatureExecuteStartsOver(t, last, fails) ==
    IF t.status \in { "None", "Ok", "Fail" }
    THEN IF t.outBuf # 0 THEN SigReturn(0 - 1, t, "XMLSEC_ERRORS_R_ASSERT")
         ELSE IF fails \in SigSetupCalls THEN SigReturn(0 - 1, t, fails)
         ELSE SigExecuteWorking([ t EXCEPT !.status = "Working" ], last, fails)
    ELSE SigExecuteWorking(t, last, fails)

\* xmlSecMSCngSignatureExecute(transform, last, transformCtx), lines 482-695
xmlSecMSCngSignatureExecute(t, last, fails) ==
    IF t.status = "None"
    THEN IF t.outBuf # 0 THEN SigReturn(0 - 1, t, "XMLSEC_ERRORS_R_ASSERT")
         ELSE IF fails \in SigSetupCalls THEN SigReturn(0 - 1, t, fails)
         ELSE SigExecuteWorking([ t EXCEPT !.status = "Working" ], last, fails)
    ELSE SigExecuteWorking(t, last, fails)

\* xmlSecMSCngSignatureVerify(transform, data, dataSize, transformCtx), lines
\* 415-480; pubkey is what xmlSecMSCngKeyDataGetPubKey returns
xmlSecMSCngSignatureVerify(t, dataSize, pubkey, nt) ==
    IF t.operation # "Verify" \/ t.status # "Finished" \/ dataSize = 0
    THEN SigReturn(0 - 1, t, "XMLSEC_ERRORS_R_ASSERT")
    ELSE IF pubkey = 0 THEN SigReturn(0 - 1, t, "xmlSecMSCngKeyDataGetPubKey")
    ELSE IF nt = "STATUS_SUCCESS" THEN SigReturn(0, [ t EXCEPT !.status = "Ok" ], "none")
    ELSE IF nt = "STATUS_INVALID_SIGNATURE"
    THEN SigReturn(0 - 1, [ t EXCEPT !.status = "Fail" ], "XMLSEC_ERRORS_R_DATA_NOT_MATCH")
    ELSE SigReturn(0 - 1, t, "BCryptVerifySignature")

(***************************************************************************)
(* A transform over several calls.  fn.t is the transform, fn.call the     *)
(* last call with its arguments, fn.ret and fn.err what it returned and    *)
(* reported.  Between the calls the transform's owner puts data in inBuf.  *)
(***************************************************************************)
NtStatuses == { "STATUS_SUCCESS", "STATUS_INVALID_SIGNATURE", "STATUS_INVALID_PARAMETER" }

InitSig ==
    /\ Quiet
    /\ fn \in { [ inp |-> [ op |-> "Sig" ], t |-> SigTransform(operation),
                  call |-> [ op |-> "none" ], ret |-> 0, err |-> "none", calls |-> 0 ] :
                  operation \in { "Sign", "Verify" } }

\* data for the transform arrives in inBuf
SigPushData(n) ==
    /\ fn.inp.op = "Sig"
    /\ fn.t.inBuf + n <= MaxSigIn
    /\ fn' = [ fn EXCEPT !.t.inBuf = @ + n, !.call = [ op |-> "PushData" ] ]
    /\ UNCHANGED nonFnVars

SigExecuteCall(last, fails) ==
    /\ fn.inp.op = "Sig"
    /\ fn.calls < MaxSigCalls
    /\ LET r == xmlSecMSCngSignatureExecute(fn.t, last, fails)
       IN  fn' = [ fn EXCEPT !.t = r.transform, !.ret = r.ret, !.err = r.err,
                             !.call = [ op |-> "Execute", last |-> last, fails |-> fails ],
                             !.calls = @ + 1 ]
    /\ UNCHANGED nonFnVars

SigVerifyCall(dataSize, pubkey, nt) ==
    /\ fn.inp.op = "Sig"
    /\ fn.calls < MaxSigCalls
    /\ LET r == xmlSecMSCngSignatureVerify(fn.t, dataSize, pubkey, nt)
       IN  fn' = [ fn EXCEPT !.t = r.transform, !.ret = r.ret, !.err = r.err,
                             !.call = [ op |-> "Verify", dataSize |-> dataSize,
                                        pubkey |-> pubkey, nt |-> nt ],
                             !.calls = @ + 1 ]
    /\ UNCHANGED nonFnVars

NextSig ==
    \/ \E n \in 1..MaxSigIn : SigPushData(n)
    \/ \E last \in BOOLEAN, fails \in { "none" } \cup SigLibCalls : SigExecuteCall(last, fails)
    \/ \E dataSize \in { 0, SigSize }, pubkey \in { 0, 1 }, nt \in NtStatuses :
          SigVerifyCall(dataSize, pubkey, nt)

SpecSig == InitSig /\ [][NextSig]_vars

(***************************************************************************)
(* The NSS store.                                                          *)
(***************************************************************************)
\* xmlSecNssX509StoreAdoptCert.  okAdd, okDecode and okTrust are the outcomes
\* of CERT_AddCertToListTail, CERT_DecodeTrustString and CERT_ChangeCertTrust;
\* the status of CERT_ChangeCertTrust is not stored, so it is not looked at.
NssStoreAdoptCert(cert, trusted, okAdd, okDecode, okTrust) ==
    IF ~okAdd
    THEN /\ nssCtx' = nssCtx
         /\ ret' = 0 - 1
    ELSE IF trusted /\ ~okDecode
    THEN /\ nssCtx' = [ nssCtx EXCEPT !.certsList = Append(@, cert) ]
         /\ ret' = 0 - 1
    ELSE /\ nssCtx' = [ nssCtx EXCEPT !.certsList = Append(@, cert),
                                      !.trusted = IF trusted /\ okTrust
                                                  THEN @ \cup { cert.id } ELSE @ ]
         /\ ret' = 0

NssAdoptCert(cert, trusted, okAdd, okDecode, okTrust) ==
    /\ backend = "nss"
    /\ pc = "idle"
    /\ cert.id \notin { c.id : c \in Range(nssCtx.certsList) }
    /\ Len(nssCtx.certsList) <= MaxUntrusted
    /\ NssStoreAdoptCert(cert, trusted, okAdd, okDecode, okTrust)
    /\ UNCHANGED << backend, ctx, clock, pc, certs, crls, keyInfoCtx, certs2, crls2, i, res,
                    err, err_cert, tried, errors, other, fn >>

\* lines 242-259: cert is the issuer of another certificate of the list
NssIssuesAnother(certList, cert) ==
    \E k \in 1..Len(certList) : /\ certList[k].id # cert.id
                                /\ certList[k].issuer = cert.subject

NssTrusted(cert) ==
    \E a \in Range(nssCtx.certsList) :
        a.id \in nssCtx.trusted /\ [ a EXCEPT !.id = cert.id ] = cert

\* the chain walk of CERT_VerifyCertificate: from cur up to a trusted certificate,
\* issuers taken from the certificates the database knows
RECURSIVE NssChain(_, _, _, _)
NssChain(chain, db, t, first) ==
    LET cur == chain[Len(chain)]
        up == IssuersIn(db, cur, chain)
    IN  IF cur.notBefore > t \/ cur.notAfter < t
        THEN IF first THEN "SEC_ERROR_EXPIRED_CERTIFICATE"
                      ELSE "SEC_ERROR_EXPIRED_ISSUER_CERTIFICATE"
        ELSE IF NssTrusted(cur) THEN "0"
        ELSE IF cur.subject = cur.issuer /\ cur.signedBy = cur.key
             THEN "SEC_ERROR_UNTRUSTED_ISSUER"
        ELSE IF up = {} THEN "SEC_ERROR_UNKNOWN_ISSUER"
        ELSE NssChain(Append(chain, db[First(up)]), db, t, FALSE)

\* CERT_VerifyCertificate(CERT_GetDefaultCertDB(), cert, ..., timeboundary, ...):
\* the error it leaves for PORT_GetError, "0" on SECSuccess
CERT_VerifyCertificate(cert, certList, kic) ==
    NssChain(<< cert >>, certList \o nssCtx.certsList, CheckTime(kic), TRUE)

\* lines 235-275: the loop over the list from position k on; cert is the loop
\* variable as the loop leaves it, status whether it ended with SECSuccess
RECURSIVE NssVerifyLoop(_, _, _, _, _, _)
NssVerifyLoop(certList, k, kic, cert, done, e) ==
    IF k > Len(certList)
    THEN [ status |-> FALSE, cert |-> cert, tried |-> done, err |-> e ]
    ELSE LET c == certList[k]
         IN  IF NssIssuesAnother(certList, c)
             THEN NssVerifyLoop(certList, k + 1, kic, << c >>, done, e)
             ELSE IF kic.dontVerifyCerts
             THEN [ status |-> TRUE, cert |-> << c >>,
                    tried |-> Append(done, [ cert |-> c, ok |-> TRUE ]), err |-> e ]
             ELSE IF CERT_VerifyCertificate(c, certList, kic) = "0"
             THEN [ status |-> TRUE, cert |-> << c >>,
                    tried |-> Append(done, [ cert |-> c, ok |-> TRUE ]), err |-> e ]
             ELSE NssVerifyLoop(certList, k + 1, kic, << c >>,
                                Append(done, [ cert |-> c, ok |-> FALSE ]),
                                CERT_VerifyCertificate(c, certList, kic))

\* the error PORT_GetError returns when this call set none
NssStaleErrors == { "0", "SEC_ERROR_UNKNOWN_ISSUER" }

\* lines 281-310: the reason reported for the error PORT_GetError returns
NssErrorReason(e) ==
    CASE e \in { "SEC_ERROR_EXPIRED_ISSUER_CERTIFICATE", "SEC_ERROR_CA_CERT_INVALID",
                 "SEC_ERROR_UNKNOWN_SIGNER" } -> "XMLSEC_ERRORS_R_CERT_ISSUER_FAILED"
      [] e = "SEC_ERROR_EXPIRED_CERTIFICATE" -> "XMLSEC_ERRORS_R_CERT_HAS_EXPIRED"
      [] e = "SEC_ERROR_REVOKED_CERTIFICATE" -> "XMLSEC_ERRORS_R_CERT_REVOKED"
      [] OTHER -> "XMLSEC_ERRORS_R_CERT_VERIFY_FAILED"

\* xmlSecNssX509StoreVerify.  With an empty list the error report reads
\* cert->subjectName through a NULL cert: the call faults or goes on.
NssVerify(inp) ==
    /\ backend = "nss"
    /\ pc = "idle"
    /\ { c.id : c \in Range(inp.certs) } \cap { c.id : c \in Range(nssCtx.certsList) } = {}
    /\ LET r == NssVerifyLoop(inp.certs, 1, inp.keyInfoCtx, <<>>, <<>>, "")
       IN  /\ res' = IF r.status THEN r.cert ELSE <<>>
           /\ tried' = r.tried
           /\ err_cert' = r.cert
           /\ IF r.status THEN err' = "0"
              ELSE IF r.err # "" THEN err' = r.err
              ELSE err' \in NssStaleErrors
           /\ IF ~r.status /\ r.cert = <<>> THEN pc' \in { "fault", "done" } ELSE pc' = "done"
           /\ errors' = IF r.status \/ pc' = "fault" THEN <<>> ELSE << NssErrorReason(err') >>
    /\ certs' = inp.certs
    /\ crls' = NullCrls
    /\ keyInfoCtx' = inp.keyInfoCtx
    /\ certs2' = <<>>
    /\ crls2' = NullCrls
    /\ i' = 0
    /\ ret' = 0
    /\ UNCHANGED storeVars

NssInputs == { inp \in VerifyInputs : inp.crls.null }

(***************************************************************************)
(* The store on its own: xmlSecOpenSSLX509StoreAdoptCert, AdoptCrl,        *)
(* FindCert_ex and xmlSecNssX509StoreAdoptCert called one after the other  *)
(* on a new store.  fn.log records every call with its arguments and what  *)
(* it returned.  A certificate the store holds is the store's: the caller  *)
(* does not hand it over a second time.                                    *)
(***************************************************************************)
AdoptedCerts == { c \in FindCerts : c.id \in { "F1", "F2", "F3" } }
LookupSkis == { << << 170, 187 >> >>, << << 170 >> >> }

InitAdopt ==
    /\ backend \in { "openssl", "nss" }
    /\ ctx = [ xst |-> <<>>, untrusted |-> <<>>, crls |-> <<>> ]
    /\ nssCtx = [ certsList |-> <<>>, trusted |-> {} ]
    /\ clock = 2
    /\ pc = "idle"
    /\ certs = <<>>
    /\ crls = NullCrls
    /\ keyInfoCtx = NoKeyInfoCtx
    /\ certs2 = <<>>
    /\ crls2 = NullCrls
    /\ i = 0
    /\ res = <<>>
    /\ err = "X509_V_OK"
    /\ err_cert = <<>>
    /\ tried = <<>>
    /\ ret = 0
    /\ errors = <<>>
    /\ other = NoCall
    /\ fn = [ inp |-> [ op |-> "Store" ], log |-> << >> ]

\* xmlSecOpenSSLX509StoreAdoptCert(store, cert, type)
AdoptCertCall(cert, trusted, ok) ==
    /\ backend = "openssl"
    /\ fn.inp.op = "Store"
    /\ Len(fn.log) < MaxCalls
    /\ cert.id \notin StoreIds
    /\ StoreAdoptCert(cert, trusted, ok)
    /\ fn' = [ fn EXCEPT !.log = Append(@, [ op |-> "AdoptCert", arg |-> cert, trusted |-> trusted,
                                             lib |-> ok, ret |-> ret' ]) ]
    /\ UNCHANGED << backend, nssCtx, clock, pc, certs, crls, keyInfoCtx, certs2, crls2, i, res, err,
                    err_cert, tried, errors, other >>

\* xmlSecOpenSSLX509StoreAdoptCrl(store, crl)
AdoptCrlCall(crl, ok) ==
    /\ backend = "openssl"
    /\ fn.inp.op = "Store"
    /\ Len(fn.log) < MaxCalls
    /\ crl.id \notin { c.id : c \in Range(ctx.crls) }
    /\ StoreAdoptCrl(crl, ok)
    /\ fn' = [ fn EXCEPT !.log = Append(@, [ op |-> "AdoptCrl", arg |-> crl, trusted |-> FALSE,
                                             lib |-> ok, ret |-> ret' ]) ]
    /\ UNCHANGED << backend, nssCtx, clock, pc, certs, crls, keyInfoCtx, certs2, crls2, i, res, err,
                    err_cert, tried, errors, other >>

\* xmlSecOpenSSLX509StoreFindCert_ex(store, NULL, NULL, NULL, ski, skiSize, keyInfoCtx)
StoreFindCertCall(ski) ==
    /\ backend = "openssl"
    /\ fn.inp.op = "Store"
    /\ Len(fn.log) < MaxCalls
    /\ fn' = [ fn EXCEPT !.log = Append(@, [ op |-> "FindCert", arg |-> ski, trusted |-> FALSE,
                                             lib |-> TRUE,
                                             ret |-> FindCert(ctx.untrusted, << >>, << >>, << >>, ski) ]) ]
    /\ UNCHANGED nonFnVars

\* xmlSecNssX509StoreAdoptCert(store, cert, type)
NssAdoptCertCall(cert, trusted, okAdd, okDecode, okTrust) ==
    /\ backend = "nss"
    /\ fn.inp.op = "Store"
    /\ Len(fn.log) < MaxCalls
    /\ cert.id \notin { c.id : c \in Range(nssCtx.certsList) }
    /\ NssStoreAdoptCert(cert, trusted, okAdd, okDecode, okTrust)
    /\ fn' = [ fn EXCEPT !.log = Append(@, [ op |-> "AdoptCert", arg |-> cert, trusted |-> trusted,
                                             lib |-> okAdd, ret |-> ret' ]) ]
    /\ UNCHANGED << backend, ctx, clock, pc, certs, crls, keyInfoCtx, certs2, crls2, i, res,
                    err, err_cert, tried, errors, other >>

NextAdopt ==
    \/ \E cert \in AdoptedCerts, trusted \in BOOLEAN, ok \in BOOLEAN : AdoptCertCall(cert, trusted, ok)
    \/ \E crl \in StoreCrls, ok \in BOOLEAN : AdoptCrlCall(crl, ok)
    \/ \E ski \in LookupSkis : StoreFindCertCall(ski)
    \/ \E cert \in AdoptedCerts, trusted \in BOOLEAN, okAdd \in BOOLEAN, okDecode \in BOOLEAN,
          okTrust \in BOOLEAN : NssAdoptCertCall(cert, trusted, okAdd, okDecode, okTrust)

SpecAdopt == InitAdopt /\ [][NextAdopt]_vars

Next ==
    \/ pc = "idle" /\ \E cert \in TrustedCerts, ok \in BOOLEAN : AdoptCert(cert, TRUE, ok)
    \/ pc = "idle" /\ \E cert \in UntrustedCerts, ok \in BOOLEAN : AdoptCert(cert, FALSE, ok)
    \/ pc = "idle" /\ \E crl \in StoreCrls, ok \in BOOLEAN : AdoptCrl(crl, ok)
    \/ pc = "idle" /\ \E inp \in VerifyInputs : VerifyBegin(inp)
    \/ pc = "idle" /\ \E cert \in TrustedCerts, okAdd \in BOOLEAN, okDecode \in BOOLEAN,
                           okTrust \in BOOLEAN :
                           NssAdoptCert(cert, TRUE, okAdd, okDecode, okTrust)
    \/ pc = "idle" /\ \E cert \in UntrustedCerts, okAdd \in BOOLEAN :
                           NssAdoptCert(cert, FALSE, okAdd, TRUE, TRUE)
    \/ pc = "idle" /\ \E inp \in NssInputs : NssVerify(inp)
    \/ CrlsLoopKeep
    \/ CrlsLoopDelete
    \/ CrlsLoopError
    \/ CrlsLoopEnd
    \/ RevokedLoopDelete
    \/ RevokedLoopNext
    \/ RevokedLoopEnd
    \/ VerifyLoopSkip
    \/ VerifyLoopFound
    \/ VerifyLoopFailed
    \/ VerifyLoopEnd
    \/ VerifyReturn

Spec == Init /\ [][Next]_vars

(***************************************************************************)
(* Vocabulary of the properties.                                           *)
(***************************************************************************)
OpenSSL == backend = "openssl"

\* the working list a call starts from, and the certificates removed from it
StartCerts == certs \o ctx.untrusted
Removed == { c \in Range(StartCerts) : c \notin Range(certs2) }
TriedCerts == { tried[k].cert : k \in 1..Len(tried) }

\* no certificate of the trust store has the CRL's issuer as its subject
NoIssuer(crl) == \A a \in Range(ctx.xst) : a.subject # crl.issuer

\* the call left the CRL loop through its error branch
Aborted == pc = "done" /\ \E crl \in Range(crls2.items) : NoIssuer(crl)

\* the revocation filter has run to its end
FilterDone == OpenSSL /\ (pc = "verify" \/ (pc = "done" /\ ~Aborted))

\* the CRLs of the call and of the store
CallCrlSet == IF crls.null THEN {} ELSE Range(crls.items)
AllCrls == CallCrlSet \cup Range(ctx.crls)

\* the reference time of the call, freshness of a CRL at a time, a CRL of the
\* certificate's issuer that lists its serial, a signature-valid CRL
RefTime == CheckTime(keyInfoCtx)
IsFresh(crl, t) == crl.nextUpdate # 0 /\ ~(t > crl.nextUpdate)
Lists(crl, c) ==
    /\ NamesCompare(crl.issuer, c.issuer) = 0
    /\ \E n \in 1..Len(crl.revoked) : crl.revoked[n] = c.serial
SignatureValid(crl) ==
    \E a \in Range(ctx.xst) : a.subject = crl.issuer /\ crl.signedBy = a.key

\* C1: every candidate listed in a fresh, signature-valid CRL of its issuer is
\* removed from the working list before the first chain validation, and a
\* certificate that no CRL lists stays in the list
C1_RevokedRemovedBeforeChainBuild ==
    (OpenSSL /\ (pc = "verify" \/ tried # <<>>)) =>
        \A c \in Range(StartCerts) :
            /\ (\E crl \in AllCrls :
                    SignatureValid(crl) /\ IsFresh(crl, RefTime) /\ Lists(crl, c))
                    => c \notin Range(certs2)
            /\ (\A crl \in AllCrls : ~Lists(crl, c)) => c \in Range(certs2)

\* C2: a certificate is treated as revoked when its serial is listed by any
\* effective CRL of its issuer, wherever that CRL stands in the list
C2_AnyMatchingCrlRevokes ==
    (OpenSSL /\ pc = "revoked" /\ i < Len(certs2)) =>
        \A list \in { crls2.items, ctx.crls } :
            (\E k \in 1..Len(list) :
                 /\ SignatureValid(list[k])
                 /\ IsFresh(list[k], RefTime)
                 /\ Lists(list[k], certs2[i + 1]))
                => VerifyCertAgainstCrls(list, certs2[i + 1]) = 0

\* C3: a CRL whose nextUpdate is earlier than the reference time removes no
\* certificate: every removed certificate is listed by a CRL whose nextUpdate
\* is not earlier than the time of the call (clock or verification time)
C3_ExpiredCrlNeverRemoves ==
    FilterDone =>
        \A c \in Removed :
            \E crl \in Range(crls2.items) \cup Range(ctx.crls) :
                /\ Lists(crl, c)
                /\ ~(crl.nextUpdate < clock /\ crl.nextUpdate < RefTime)

\* the CRL the filter consults for a certificate: the first of its issuer
Consulted(list, c) ==
    LET match == { k \in 1..Len(list) : NamesCompare(list[k].issuer, c.issuer) = 0 }
    IN  IF match = {} THEN <<>> ELSE << list[First(match)] >>

\* C4: with certsVerificationTime set, the freshness of the consulted CRL is
\* decided at that time: where it differs from the freshness at the current
\* time, the certificate is revoked iff the CRL is fresh at certsVerificationTime
\* and lists it
C4_FreshnessAtVerificationTime ==
    (OpenSSL /\ pc = "revoked" /\ i < Len(certs2) /\ keyInfoCtx.certsVerificationTime > 0) =>
        \A list \in { crls2.items, ctx.crls } :
            LET crl == Consulted(list, certs2[i + 1])
            IN  (crl # <<>> /\ IsFresh(crl[1], clock) # IsFresh(crl[1], RefTime)) =>
                    ((VerifyCertAgainstCrls(list, certs2[i + 1]) = 0)
                        <=> (IsFresh(crl[1], RefTime) /\ Lists(crl[1], certs2[i + 1])))

C6_MissingCrlIssuerAborts ==
    (OpenSSL /\ \E crl \in CallCrlSet : NoIssuer(crl)) =>
        \/ pc = "crls"
        \/ pc = "done" /\ res = <<>> /\ tried = <<>>

\* a candidate that would be returned were the CRLs left out
WouldVerify(c) ==
    /\ FindNextChainCert(StartCerts, c) = <<>>
    /\ X509_verify_cert(ctx.xst, c, StartCerts, keyInfoCtx).ret = 1

\* C6 witness: the call is over without a result, the only CRL without issuer is
\* unrelated to every candidate, and a candidate would otherwise verify
C6_Witness ==
    /\ OpenSSL /\ pc = "done" /\ res = <<>>
    /\ \E crl \in CallCrlSet :
          /\ NoIssuer(crl)
          /\ \A c \in Range(StartCerts) : c.issuer # crl.issuer /\ c.subject # crl.issuer
    /\ \E c \in Range(certs) : WouldVerify(c) /\ \A crl \in AllCrls : ~Lists(crl, c)

\* the certificate of a CRL's issuer is among the candidates of the call
IssuerAmongCandidates(crl) == \E c \in Range(StartCerts) : c.subject = crl.issuer

Processed ==
    IF pc = "verify" THEN i
    ELSE IF pc = "done" /\ ~Aborted THEN (IF res # <<>> THEN i + 1 ELSE i)
    ELSE 0

\* C8 as claimed: a certificate the loop has gone through was tried iff no other
\* certificate of the list has an issuer name equal to its subject name
C8_TriedIffNotAnIssuer ==
    OpenSSL =>
        \A k \in 1..Processed :
            (certs2[k] \in TriedCerts)
                <=> ~\E m \in 1..Len(certs2) :
                        certs2[m].id # certs2[k].id /\ certs2[m].issuer = certs2[k].subject

\* the starting points of the NSS call: positions up to the returned one
NssProcessed ==
    IF res = <<>> THEN Len(certs)
    ELSE CHOOSE k \in 1..Len(certs) : certs[k].id = res[1].id

\* C8 as amended: with OpenSSL a certificate is tried iff no certificate of the
\* list with another subject name has its subject name as issuer name (names
\* compared as encoded); with NSS iff no other certificate object of the list
\* has its subject name as issuer name
C8_TriedIffNoIssuedOtherSubject ==
    /\ OpenSSL =>
         \A k \in 1..Processed :
            (certs2[k] \in TriedCerts)
                <=> ~\E m \in 1..Len(certs2) :
                        /\ certs2[m].subject # certs2[k].subject
                        /\ certs2[m].issuer = certs2[k].subject
    /\ (backend = "nss" /\ pc = "done") =>
         \A k \in 1..NssProcessed :
            (certs[k] \in TriedCerts)
                <=> ~\E m \in 1..Len(certs) :
                        certs[m].id # certs[k].id /\ certs[m].issuer = certs[k].subject

\* C8 witness: two candidates with the same subject name, both tried
C8_Witness ==
    /\ OpenSSL /\ pc = "verify"
    /\ \E a \in TriedCerts, b \in TriedCerts : a.id # b.id /\ a.subject = b.subject

\* a list that is a chain: different subjects, one self-signed root, every other
\* certificate issued by a certificate of the list, one certificate that issued
\* none; EndEntity is that certificate
SelfSigned(c) == c.subject = c.issuer
IssuedNone(list, c) == \A d \in Range(list) : d.id = c.id \/ d.issuer # c.subject
IsLinearChain(list) ==
    /\ Len(list) >= 2
    /\ \A k, m \in 1..Len(list) : k # m => list[k].subject # list[m].subject
    /\ Cardinality({ c \in Range(list) : SelfSigned(c) }) = 1
    /\ \A c \in Range(list) :
          SelfSigned(c) \/ \E d \in Range(list) : d.id # c.id /\ d.subject = c.issuer
    /\ Cardinality({ c \in Range(list) : IssuedNone(list, c) }) = 1
EndEntity(list) == CHOOSE c \in Range(list) : IssuedNone(list, c)

AllSelfSigned(list) ==
    /\ \A c \in Range(list) : SelfSigned(c)
    /\ \A k, m \in 1..Len(list) : k # m => list[k].subject # list[m].subject

\* C9: of a list that is a chain only the end entity is tried, in any order of
\* the list; of a list of self-signed certificates with different subjects every
\* certificate the loop has gone through is tried
C9_ChainAndSelfSignedLeaves ==
    OpenSSL =>
        /\ IsLinearChain(certs2) =>
              /\ TriedCerts \subseteq { EndEntity(certs2) }
              /\ \A k \in 1..Processed :
                    certs2[k] = EndEntity(certs2) => certs2[k] \in TriedCerts
        /\ AllSelfSigned(certs2) =>
              \A k \in 1..Processed : certs2[k] \in TriedCerts

\* C9 witnesses: a chain of three that does not start with its end entity, gone
\* through to the end; three self-signed certificates all tried
C9_Witness ==
    /\ OpenSSL /\ pc = "done" /\ ~Aborted
    /\ \/ /\ IsLinearChain(certs2) /\ Len(certs2) = 3 /\ certs2[3] # EndEntity(certs2)
          /\ TriedCerts = { EndEntity(certs2) } /\ res = <<>>
       \/ /\ AllSelfSigned(certs2) /\ Len(certs2) = 3 /\ Cardinality(TriedCerts) = 3

\* position of a certificate in the working list
PosIn(list, c) == CHOOSE k \in 1..Len(list) : list[k].id = c.id

\* On a list and its record of tries: the tries are in list order, all but
\* the last one failed, a successful one is the result and ends the call, and
\* every starting point before the result was tried
TriedInOrder(list, isStart(_)) ==
    /\ \A k \in 1..Len(tried) : tried[k].cert \in Range(list)
    /\ \A k, m \in 1..Len(tried) :
          k < m => PosIn(list, tried[k].cert) < PosIn(list, tried[m].cert)
    /\ \A k \in 1..Len(tried) :
          tried[k].ok => (k = Len(tried) /\ res = << tried[k].cert >> /\ pc = "done")
    /\ res # <<>> =>
          /\ tried # <<>> /\ tried[Len(tried)] = [ cert |-> res[1], ok |-> TRUE ]
          /\ \A k \in 1..(PosIn(list, res[1]) - 1) :
                isStart(list[k]) => [ cert |-> list[k], ok |-> FALSE ] \in Range(tried)

\* C10: the starting points are tried in list order and the first one whose
\* chain validates is returned: nothing is tried after it, and every starting
\* point before it in the list was tried and failed
C10_FirstValidLeafInOrder ==
    /\ OpenSSL =>
          /\ TriedInOrder(certs2, LAMBDA c : FindNextChainCert(certs2, c) = <<>>)
          /\ ~keyInfoCtx.dontVerifyCerts =>
                \A k \in 1..Len(tried) :
                    tried[k].ok
                        <=> X509_verify_cert(ctx.xst, tried[k].cert, certs2, keyInfoCtx).ret = 1
    /\ backend = "nss" =>
          /\ TriedInOrder(certs, LAMBDA c : ~NssIssuesAnother(certs, c))
          /\ ~keyInfoCtx.dontVerifyCerts =>
                \A k \in 1..Len(tried) :
                    tried[k].ok <=> CERT_VerifyCertificate(tried[k].cert, certs, keyInfoCtx) = "0"

\* C10 witness: the result is the second starting point tried, after a failed one,
\* and a starting point stands after it in the list
C10_Witness ==
    /\ OpenSSL /\ pc = "done" /\ res # <<>>
    /\ Len(tried) = 2 /\ ~tried[1].ok
    /\ \E k \in (PosIn(certs2, res[1]) + 1)..Len(certs2) :
          FindNextChainCert(certs2, certs2[k]) = <<>>

\* C11: the certificate the OpenSSL call returns is one of the certificates the
\* caller passed, never one the store alone holds as untrusted
C11_ResultFromCallerList ==
    (OpenSSL /\ res # <<>>) => res[1].id \in { c.id : c \in Range(certs) }

\* the call went through the verification loop, tried starting points, and
\* none validated
AllTriedFailed ==
    /\ pc = "done" /\ ~Aborted
    /\ tried # <<>>
    /\ \A k \in 1..Len(tried) : ~tried[k].ok

LastTried == tried[Len(tried)].cert
LastReport == errors[Len(errors)]

\* C12: when starting points were tried and none validated, the call returns no
\* certificate and its last report is the reason of the error of the last
\* starting point tried
C12_LastFailureReported ==
    AllTriedFailed =>
        /\ res = <<>>
        /\ errors # <<>>
        /\ OpenSSL =>
              /\ err = X509_verify_cert(ctx.xst, LastTried, certs2, keyInfoCtx).err
              /\ LastReport = VerifyErrorReason(err)
        /\ backend = "nss" =>
              /\ err = CERT_VerifyCertificate(LastTried, certs, keyInfoCtx)
              /\ LastReport = NssErrorReason(err)

\* C12 witness: two starting points failed with errors of different reasons and
\* the reason of the second is the last report
C12_Witness ==
    /\ OpenSSL /\ AllTriedFailed /\ Len(tried) = 2
    /\ VerifyErrorReason(X509_verify_cert(ctx.xst, tried[1].cert, certs2, keyInfoCtx).err)
          # LastReport
    /\ LastReport = "XMLSEC_ERRORS_R_CERT_HAS_EXPIRED"

\* the call is over and no certificate of the list was a starting point
EmptyLeafSet == pc \in { "done", "fault" } /\ ~Aborted /\ tried = <<>>

\* C13: when no certificate of the list is a starting point the call does not
\* fault, returns no certificate, and makes one report, which is none of the
\* reasons of a failed chain validation
C13_EmptyLeafSetReported ==
    EmptyLeafSet =>
        /\ pc # "fault"
        /\ res = <<>>
        /\ Len(errors) = 1
        /\ errors[1] \notin { "XMLSEC_ERRORS_R_CERT_VERIFY_FAILED",
                              "XMLSEC_ERRORS_R_CERT_ISSUER_FAILED",
                              "XMLSEC_ERRORS_R_CERT_NOT_YET_VALID",
                              "XMLSEC_ERRORS_R_CERT_HAS_EXPIRED",
                              "XMLSEC_ERRORS_R_CERT_REVOKED" }

\* the reasons C14 gives to the error codes of the two libraries
UnableToGetIssuer ==
    { "X509_V_ERR_UNABLE_TO_GET_ISSUER_CERT", "X509_V_ERR_UNABLE_TO_GET_ISSUER_CERT_LOCALLY",
      "SEC_ERROR_UNKNOWN_ISSUER" }
ClaimedReason(e) ==
    IF e \in UnableToGetIssuer THEN "XMLSEC_ERRORS_R_CERT_ISSUER_FAILED"
    ELSE IF e \in { "X509_V_ERR_CERT_NOT_YET_VALID", "X509_V_ERR_ERROR_IN_CERT_NOT_BEFORE_FIELD" }
         THEN "XMLSEC_ERRORS_R_CERT_NOT_YET_VALID"
    ELSE IF e \in { "X509_V_ERR_CERT_HAS_EXPIRED", "X509_V_ERR_ERROR_IN_CERT_NOT_AFTER_FIELD",
                    "SEC_ERROR_EXPIRED_CERTIFICATE" }
         THEN "XMLSEC_ERRORS_R_CERT_HAS_EXPIRED"
    ELSE "XMLSEC_ERRORS_R_CERT_VERIFY_FAILED"

\* C14: a call whose chain validations all failed makes one report,
\* the reason the claim gives to the error code
C14_OneReportByCode ==
    AllTriedFailed => errors = << ClaimedReason(err) >>

\* C15: no step of a call changes the store, and no step between the entry of
\* a call and its return changes the stacks the caller passed
C15_VerifyOnlyReads ==
    [][ (pc # "idle" \/ pc' # "idle") =>
            /\ ctx' = ctx
            /\ nssCtx' = nssCtx
            /\ (pc # "idle" /\ pc' # "idle") => (certs' = certs /\ crls' = crls) ]_vars

\* C15 witness: a call at its end whose working stacks lost a CRL and a
\* certificate while the caller's stacks hold them
C15_Witness ==
    /\ OpenSSL /\ pc = "done" /\ ~crls.null
    /\ ctx.untrusted # <<>> /\ ctx.crls # <<>>
    /\ Len(crls2.items) < Len(crls.items)
    /\ Len(certs2) < Len(certs) + Len(ctx.untrusted)
    /\ Len(certs) >= 2

\* what a call returns when it runs alone on a store: the three loops of
\* xmlSecOpenSSLX509StoreVerify run one after the other
RECURSIVE AloneCrls(_, _, _)
AloneCrls(xst, items, k) ==
    IF k >= Len(items) THEN [ ok |-> TRUE, items |-> items ]
    ELSE IF VerifyCRL(xst, items[k + 1]) = 1 THEN AloneCrls(xst, items, k + 1)
    ELSE IF VerifyCRL(xst, items[k + 1]) = 0 THEN AloneCrls(xst, sk_delete(items, k), k)
    ELSE [ ok |-> FALSE, items |-> items ]

RECURSIVE AloneRevoked(_, _, _, _)
AloneRevoked(list, k, callCrls, storeCrls) ==
    IF k >= Len(list) THEN list
    ELSE IF \/ ~callCrls.null /\ VerifyCertAgainstCrls(callCrls.items, list[k + 1]) = 0
            \/ VerifyCertAgainstCrls(storeCrls, list[k + 1]) = 0
         THEN AloneRevoked(sk_delete(list, k), k, callCrls, storeCrls)
    ELSE AloneRevoked(list, k + 1, callCrls, storeCrls)

RECURSIVE AloneVerify(_, _, _, _)
AloneVerify(list, k, xst, kic) ==
    IF k >= Len(list) THEN <<>>
    ELSE IF FindNextChainCert(list, list[k + 1]) # <<>> THEN AloneVerify(list, k + 1, xst, kic)
    ELSE IF kic.dontVerifyCerts \/ X509_verify_cert(xst, list[k + 1], list, kic).ret = 1
         THEN << list[k + 1] >>
    ELSE AloneVerify(list, k + 1, xst, kic)

Alone(store, call) ==
    LET f == IF call.crls.null THEN [ ok |-> TRUE, items |-> <<>> ]
             ELSE AloneCrls(store.xst, call.crls.items, 0)
    IN  IF ~f.ok THEN <<>>
        ELSE AloneVerify(AloneRevoked(call.certs \o store.untrusted, 0,
                                      [ null |-> call.crls.null, items |-> f.items ],
                                      store.crls),
                         0, store.xst, call.keyInfoCtx)

\* C16: with two calls on one store, their steps interleaved in any way and no
\* Adopt call, a call that has reached its end holds the result it has when
\* it runs alone, and no step changes the store
C16_InterleavedCallsAsAlone ==
    /\ [](/\ pc = "done" => res = Alone(ctx, Locals)
          /\ other.pc = "done" => other.res = Alone(ctx, other))
    /\ [][ctx' = ctx /\ clock' = clock]_vars

\* C16 witness: a call is at its end with a certificate while another call on
\* other arguments waits in the middle of a loop, one of its elements deleted
C16_Witness ==
    /\ pc = "done" /\ res # <<>>
    /\ other.pc \in { "crls", "revoked", "verify" } /\ other.i > 0
    /\ other.certs # certs
    /\ Len(other.certs2) < Len(other.certs) + Len(ctx.untrusted)

\* one more pass of a loop advances the index over an unchanged list, or in
\* the two filter loops removes one element under an unchanged index
LoopProgress ==
    /\ (pc = "crls" /\ pc' = "crls") =>
          \/ i' = i + 1 /\ crls2' = crls2
          \/ i' = i /\ Len(crls2'.items) = Len(crls2.items) - 1
    /\ (pc = "revoked" /\ pc' = "revoked") =>
          \/ i' = i + 1 /\ certs2' = certs2
          \/ i' = i /\ Len(certs2') = Len(certs2) - 1
    /\ (pc = "verify" /\ pc' = "verify") => (i' = i + 1 /\ certs2' = certs2)

\* a bound on the statements a running call still has to execute
Measure ==
    CASE pc = "crls" -> 4 + 3 * Len(certs2) + 2 * Len(crls2.items) - i
      [] pc = "revoked" -> 3 + 3 * Len(certs2) - i
      [] pc = "verify" -> 2 + Len(certs2) - i
      [] pc = "done" -> 1
      [] OTHER -> 0

\* C17: every call that has begun comes to its return (while a statement of the
\* call can run, one does); every statement lowers a bound that is a natural
\* number; every pass of the CRL loop and of the revocation loop advances the
\* index or shortens the working list, and the verification loop tries no
\* certificate twice
C17_VerifyTerminates ==
    /\ (pc # "idle") ~> (pc = "idle")
    /\ [][LoopProgress /\ (pc # "idle" => Measure' < Measure)]_vars
    /\ [](/\ Measure \in Nat
          /\ i <= Len(certs2) + Len(crls2.items)
          /\ \A k, m \in 1..Len(tried) : k # m => tried[k].cert.id # tried[m].cert.id)

\* C17 witness: a call at its end that deleted a CRL and a certificate from
\* its working lists and tried a certificate
C17_Witness ==
    /\ pc = "done" /\ ~crls.null
    /\ Len(crls2.items) < Len(crls.items)
    /\ Len(certs2) < Len(certs) + Len(ctx.untrusted)
    /\ Len(tried) >= 1

\* the number of entries of name a equal to e in type and value bytes
EntryCount(a, e) == Cardinality({ k \in DOMAIN a : a[k] = e })
SameMultiset(a, b) == \A e \in Range(a) \cup Range(b) : EntryCount(a, e) = EntryCount(b, e)
IsPermutationOf(a, b) ==
    /\ Len(a) = Len(b)
    /\ \E p \in [ DOMAIN a -> DOMAIN a ] :
         /\ \A k, m \in DOMAIN a : k # m => p[k] # p[m]
         /\ \A k \in DOMAIN a : b[k] = a[p[k]]

\* C18: the name comparison returns 0 exactly when the two names hold the same
\* multiset of (attribute type, value bytes) entries; it returns 0 for a name
\* and any permutation of its entries, for a name and itself, and for (a, b)
\* exactly when it does for (b, a)
C18_NamesEqualAsMultisets ==
    (fn.op = "NamesCompare" /\ fn.called) =>
        /\ (fn.ret = 0) <=> SameMultiset(fn.a, fn.b)
        /\ IsPermutationOf(fn.a, fn.b) => fn.ret = 0
        /\ NamesCompare(fn.a, fn.a) = 0
        /\ (fn.ret = 0) <=> (NamesCompare(fn.b, fn.a) = 0)

\* C18 witness: the comparison has returned 0 for two names of three entries,
\* not all alike, in different orders
C18_Witness ==
    /\ fn.op = "NamesCompare" /\ fn.called
    /\ fn.ret = 0
    /\ Len(fn.a) = 3
    /\ fn.a # fn.b
    /\ fn.a[1] # fn.b[1] /\ fn.a[3] # fn.b[3]

\* the pairs a text was written from, as the parser is to return them
PairsMade == [ k \in DOMAIN fn.inp.made |-> [ name |-> fn.inp.made[k].name, value |-> fn.inp.made[k].value ] ]

\* C19: for a text made of name=value pairs with bare or quoted values, the
\* pairs separated by a comma followed by whitespace, the parser succeeds and
\* returns one (name, value) per pair in the order of the text, without the
\* whitespace before a name and after a value, and with the comma of a quoted
\* value inside the value
C19_PairsReadInOrder ==
    (fn.inp.op = "NameRead" /\ fn.inp.kind = "pairs" /\ fn.called) =>
        /\ ~fn.res.fault
        /\ fn.res.ok
        /\ fn.res.nm = PairsMade

\* what the escape rules make of a text up to its delimiter: the bytes, each
\* with whether it was written from an escape; a backslash before one hex
\* digit only is outside the rules
RECURSIVE Unescaped(_, _)
Unescaped(in, delim) ==
    IF Len(in) = 0 \/ in[1] = delim THEN << >>
    ELSE IF in[1] # Ch("\\") THEN << [ byte |-> in[1], escaped |-> FALSE ] >> \o Unescaped(Tail(in), delim)
    ELSE IF Len(in) = 1 THEN << >>
    ELSE IF ~xmlSecIsHex(in[2])
    THEN << [ byte |-> in[2], escaped |-> TRUE ] >> \o Unescaped(Drop(in, 2), delim)
    ELSE << [ byte |-> xmlSecGetHex(in[2]) * 16 + xmlSecGetHex(in[3]), escaped |-> TRUE ] >>
         \o Unescaped(Drop(in, 3), delim)

RECURSIVE InEscapeRules(_, _)
InEscapeRules(in, delim) ==
    IF Len(in) = 0 \/ in[1] = delim THEN TRUE
    ELSE IF in[1] # Ch("\\") THEN InEscapeRules(Tail(in), delim)
    ELSE IF Len(in) = 1 THEN TRUE
    ELSE IF ~xmlSecIsHex(in[2]) THEN InEscapeRules(Drop(in, 2), delim)
    ELSE Len(in) >= 3 /\ xmlSecIsHex(in[3]) /\ InEscapeRules(Drop(in, 3), delim)

\* a value without its trailing whitespace, the bytes written from escapes kept
RECURSIVE WithoutTrailingSpace(_)
WithoutTrailingSpace(v) ==
    IF Len(v) > 0 /\ ~v[Len(v)].escaped /\ isspace(v[Len(v)].byte)
    THEN WithoutTrailingSpace(SubSeq(v, 1, Len(v) - 1))
    ELSE [ k \in DOMAIN v |-> v[k].byte ]

\* C20: in a value, a backslash and two hex digits give the byte of that
\* number, a backslash and another character give that character, so that an
\* escaped comma or quote does not end the value, and a backslash at the end
\* of the text is dropped; the read succeeds
C20_EscapesGiveTheirBytes ==
    (/\ fn.inp.op = "NameStringRead" /\ fn.called
     /\ fn.inp.ingoreTrailingSpaces
     /\ InEscapeRules(fn.inp.in, fn.inp.delim)) =>
        /\ fn.res.ret = 0
        /\ fn.res.out = WithoutTrailingSpace(Unescaped(fn.inp.in, fn.inp.delim))

\* C21: the parser returns an error and no name, not even the pairs before the
\* offending one, for a text with a value that begins with '#', with a quoted
\* value that has no closing quote, or with a closing quote followed, after
\* whitespace or not, by another character than a comma; wherever the
\* offending pair stands in the text
C21_RefusedTextGivesNoName ==
    (fn.inp.op = "NameRead" /\ fn.inp.kind = "refused" /\ fn.called) =>
        /\ ~fn.res.fault
        /\ ~fn.res.ok
        /\ fn.res.nm = << >>

\* C21 witness: the parser has refused a text whose offending pair stands
\* between two pairs it accepts
C21_Witness ==
    /\ fn.inp.op = "NameRead" /\ fn.inp.kind = "refused" /\ fn.called
    /\ Len(fn.inp.made) = 2
    /\ ~fn.res.ok

\* C22: a quoted value, a comma and the next pair with no whitespace after the
\* comma are read as two pairs, the second with its whole attribute name
C22_CommaAloneSeparates ==
    (fn.inp.op = "NameRead" /\ fn.inp.kind = "tight" /\ fn.called) =>
        /\ fn.res.ok
        /\ fn.res.nm = PairsMade

\* the normal form of pairs: name=value, a quoted value in its quotes, a comma
\* between two pairs
RECURSIVE NormalText(_)
NormalText(ds) ==
    IF Len(ds) = 0 THEN << >>
    ELSE ds[1].name \o T(<< "=" >>)
         \o (IF ds[1].quoted THEN T(<< "\"" >>) \o ds[1].value \o T(<< "\"" >>) ELSE ds[1].value)
         \o (IF Len(ds) > 1 THEN T(<< "," >>) ELSE << >>)
         \o NormalText(Tail(ds))

\* C23: the NSS reader accepts a text of pairs, quoted values among them, as
\* the OpenSSL reader does, and writes a quoted value between quotes
C23_NssReadsQuotedValues ==
    (fn.inp.op = "NssNameRead" /\ fn.called) =>
        /\ fn.res.ok
        /\ fn.res.out = NormalText(fn.inp.made)


(***************************************************************************)
(* Properties of the certificate lookup, under SpecFind.                   *)
(***************************************************************************)
\* the name a text of the lookups stands for, << >> when it is not a name
NameOfText(t) ==
    CASE t = T(<< "C", "N", "=", "x" >>) -> << NameX >>
      [] t = T(<< "C", "N", "=", "b" >>) -> << NameB >>
      [] t = T(<< "D", "C", "=", "x" >>) -> << << Entry(3, T(<< "x" >>)) >> >>
      [] OTHER -> << >>

\* the number a serial text of the lookups stands for, << >> when it is not a
\* number
NumberOfText(t) ==
    CASE t = Dec(<< 1 >>) -> << << 1 >> >>
      [] t = Dec(<< 0 >>) -> << << >> >>
      [] t = Dec(<< 1, 2, 7 >>) -> << << 127 >> >>
      [] t = Dec(<< 1, 2, 8 >>) -> << << 128 >> >>
      [] t = Dec(<< 2, 5, 6 >>) -> << << 1, 0 >> >>
      [] t = Dec(<< 1, 8, 4, 4, 6, 7, 4, 4, 0, 7, 3, 7, 0, 9, 5, 5, 1, 6, 1, 6 >>) ->
             << << 1, 0, 0, 0, 0, 0, 0, 0, 0 >> >>
      [] t = Dec(<< 1, 8, 4, 4, 6, 7, 4, 4, 0, 7, 3, 7, 0, 9, 5, 5, 1, 6, 1, 5 >>) -> << Bytes(255, 8) >>
      [] t = Dec(<< 1, 8, 4, 4, 6, 7, 4, 4, 0, 7, 3, 7, 0, 9, 5, 5, 1, 6, 1, 7 >>) ->
             << << 1, 0, 0, 0, 0, 0, 0, 0, 1 >> >>
      [] OTHER -> << >>

FindCalled == fn.inp.op \in { "FindCert", "NssFindCert" } /\ fn.called

\* the certificates a lookup by name or serial number searches
Searched == IF fn.inp.op = "FindCert" THEN Range(fn.inp.certs) ELSE Range(fn.inp.db)

SubjectGiven == fn.inp.subjectName # << >>
IssuerSerialGiven == fn.inp.issuerName # << >> /\ fn.inp.issuerSerial # << >>
SkiGiven == fn.inp.ski # << >> /\ Len(fn.inp.ski[1]) > 0

HasSubject(c) ==
    /\ SubjectGiven
    /\ NameOfText(fn.inp.subjectName[1]) # << >>
    /\ c.subject = NameOfText(fn.inp.subjectName[1])[1]

HasIssuerSerial(c) ==
    /\ IssuerSerialGiven
    /\ NameOfText(fn.inp.issuerName[1]) # << >>
    /\ NumberOfText(fn.inp.issuerSerial[1]) # << >>
    /\ c.issuer = NameOfText(fn.inp.issuerName[1])[1]
    /\ c.serial = NumberOfText(fn.inp.issuerSerial[1])[1]

HasSki(c) == SkiGiven /\ c.ski = fn.inp.ski[1]

\* no subject name is given, or the one given is a name no certificate has
SubjectPassed ==
    /\ SubjectGiven => NameOfText(fn.inp.subjectName[1]) # << >>
    /\ ~(\E c \in Searched : HasSubject(c))

\* C24 as stated: the first criterion that is given decides the lookup alone.
\* With a subject name, a certificate is returned only for its subject; with
\* an issuer name and serial number and no subject name, a certificate is
\* returned only for its issuer and serial number, never for its key
\* identifier.
C24_FirstGivenCriterionDecides ==
    FindCalled =>
        /\ SubjectGiven => (fn.res = << >> \/ HasSubject(fn.res[1]))
        /\ (~SubjectGiven /\ IssuerSerialGiven /\ fn.inp.op = "FindCert") =>
               (fn.res = << >> \/ HasIssuerSerial(fn.res[1]))

\* C24, amended: the criteria are tried in the order subject name, issuer name
\* with serial number, key identifier.  A certificate with the subject wins; a
\* name that cannot be read or a serial text without a number ends the lookup
\* with nothing; a criterion that is given but finds no certificate passes the
\* lookup on to the next one, so that a key identifier still finds its
\* certificate; with the OpenSSL lookup a certificate with the issuer and
\* serial number wins over one with the key identifier.
C24_CriteriaTriedInOrder ==
    FindCalled =>
        /\ (\E c \in Searched : HasSubject(c)) => (fn.res # << >> /\ HasSubject(fn.res[1]))
        /\ (SubjectGiven /\ NameOfText(fn.inp.subjectName[1]) = << >>) => fn.res = << >>
        /\ ( /\ SubjectPassed
             /\ IssuerSerialGiven
             /\ \/ NameOfText(fn.inp.issuerName[1]) = << >>
                \/ NumberOfText(fn.inp.issuerSerial[1]) = << >> ) => fn.res = << >>
        /\ ( /\ fn.inp.op = "FindCert"
             /\ SubjectPassed
             /\ \E c \in Searched : HasIssuerSerial(c) ) =>
               (fn.res # << >> /\ HasIssuerSerial(fn.res[1]))
        /\ ( /\ SubjectGiven
             /\ SubjectPassed
             /\ ~IssuerSerialGiven
             /\ \E c \in Searched : HasSki(c) ) =>
               (fn.res # << >> /\ HasSki(fn.res[1]))

\* a lookup with a subject name no certificate has, that returned the
\* certificate with the key identifier
C24_Witness ==
    /\ FindCalled
    /\ fn.inp.op = "FindCert"
    /\ SubjectGiven /\ SubjectPassed
    /\ Len(fn.inp.certs) = 2
    /\ fn.res # << >> /\ HasSki(fn.res[1])

\* the first certificate of the list that has the key identifier asked for
FirstWithSki ==
    LET hits == { k \in DOMAIN fn.inp.certs : fn.inp.certs[k].ski = fn.inp.ski[1] }
    IN  IF hits = {} THEN << >>
        ELSE << fn.inp.certs[CHOOSE k \in hits : \A j \in hits : k <= j] >>

SkiAlone == FindCalled /\ fn.inp.op = "FindCert" /\ ~SubjectGiven /\ ~IssuerSerialGiven /\ SkiGiven

\* C25: a lookup by key identifier returns the first certificate, in the
\* order of the list, whose key identifier has the same length and the same
\* bytes, and nothing when there is none: not a certificate without the
\* extension, nor one whose identifier is longer or shorter.
C25_SkiExactFirstInList == SkiAlone => fn.res = FirstWithSki

\* a lookup that found the first of two certificates with the identifier
C25_Witness ==
    /\ SkiAlone
    /\ Len(fn.inp.certs) = 2
    /\ fn.inp.certs[2].ski = fn.inp.ski[1]
    /\ fn.res = << fn.inp.certs[1] >>

\* C26: a serial number is encoded as the shortest unsigned big-endian byte
\* string, with a leading zero byte only when the most significant bit of the
\* first byte is set: 1 is 01 and 128 is 00 80.
C26_SerialItemIsMinimal ==
    (fn.inp.op = "NumToItem" /\ fn.called) => fn.res = DerInteger(fn.inp.ui)

SerialRead == fn.inp.op \in { "BN_dec2bn", "PR_sscanf" } /\ fn.called

\* C27: a decimal serial number is converted to the integer it denotes,
\* whatever its size; one above 2^64 - 1 is neither cut nor wrapped.
C27_SerialReadIsExact ==
    (SerialRead /\ NumberOfText(fn.inp.str) # << >>) =>
        (fn.res.ok /\ fn.res.value = NumberOfText(fn.inp.str)[1])

(***************************************************************************)
(* Properties of the pools of the store, under SpecAdopt.                  *)
(***************************************************************************)
StoreCalls == fn.inp.op = "Store"

\* the arguments of the calls of the log that meet Sel, in the order of the calls
RECURSIVE ArgsOf(_, _, _)
ArgsOf(log, op, kinds) ==
    IF Len(log) = 0 THEN << >>
    ELSE IF Head(log).op = op /\ Head(log).ret = 0 /\ Head(log).trusted \in kinds
    THEN << Head(log).arg >> \o ArgsOf(Tail(log), op, kinds)
    ELSE ArgsOf(Tail(log), op, kinds)

\* the certificates findCert searches, the trust anchors
UntrustedPool == IF OpenSSL THEN ctx.untrusted ELSE nssCtx.certsList
TrustAnchors == IF OpenSSL THEN Range(ctx.xst)
                ELSE { c \in Range(nssCtx.certsList) : c.id \in nssCtx.trusted }

\* C28 as stated, for a store of either library: the untrusted pool is the
\* certificates adopted as untrusted, in the order of their adoption; the CRL
\* pool is the CRLs adopted, in order; a certificate adopted as trusted is a
\* trust anchor and is not in the pool findCert searches.
C28_PoolsAreWhatWasAdopted ==
    StoreCalls =>
        /\ UntrustedPool = ArgsOf(fn.log, "AdoptCert", { FALSE })
        /\ ctx.crls = ArgsOf(fn.log, "AdoptCrl", { FALSE })
        /\ \A c \in Range(ArgsOf(fn.log, "AdoptCert", { TRUE })) :
               c \in TrustAnchors /\ c \notin Range(UntrustedPool)

\* the certificates of the log the list of the NSS store has taken
RECURSIVE TakenOf(_)
TakenOf(log) ==
    IF Len(log) = 0 THEN << >>
    ELSE IF Head(log).op = "AdoptCert" /\ Head(log).lib
    THEN << Head(log).arg >> \o TakenOf(Tail(log))
    ELSE TakenOf(Tail(log))

\* C28, amended: the statement holds for the OpenSSL store, where findCert
\* returns certificates of the untrusted pool only.  The NSS store has one
\* list: it holds, in the order of the calls, every certificate the list has
\* taken, trusted or not, among them every certificate adopted with success.
C28_OpenSSLPoolsAreWhatWasAdopted ==
    StoreCalls =>
        /\ OpenSSL =>
               /\ ctx.untrusted = ArgsOf(fn.log, "AdoptCert", { FALSE })
               /\ ctx.crls = ArgsOf(fn.log, "AdoptCrl", { FALSE })
               /\ \A c \in Range(ArgsOf(fn.log, "AdoptCert", { TRUE })) :
                      c \in Range(ctx.xst) /\ c \notin Range(ctx.untrusted)
               /\ \A k \in DOMAIN fn.log :
                      (fn.log[k].op = "FindCert" /\ fn.log[k].ret # << >>) =>
                          fn.log[k].ret[1] \in Range(ctx.untrusted)
        /\ ~OpenSSL =>
               /\ nssCtx.certsList = TakenOf(fn.log)
               /\ Range(ArgsOf(fn.log, "AdoptCert", { TRUE, FALSE })) \subseteq Range(nssCtx.certsList)

\* an OpenSSL store after two certificates adopted as untrusted and one as
\* trusted
C28_Witness ==
    /\ StoreCalls /\ OpenSSL
    /\ Len(ctx.untrusted) = 2
    /\ Len(ctx.xst) = 1

\* C29: adoptCert of a trusted certificate returns success only when the
\* certificate has been made a trust anchor; when the library fails to
\* register the trust, adoptCert returns an error.
C29_TrustedSuccessMeansAnchor ==
    StoreCalls =>
        \A c \in Range(ArgsOf(fn.log, "AdoptCert", { TRUE })) : c \in TrustAnchors

(***************************************************************************)
(* Property of the base64 encoder, under SpecBase64.                       *)
(***************************************************************************)
\* the encoding of RFC 4648: six bits a character, the bits a last group
\* lacks are zero, "=" for each character it lacks
RECURSIVE StandardBase64(_)
StandardBase64(buf) ==
    IF Len(buf) = 0 THEN << >>
    ELSE IF Len(buf) = 1
    THEN << Base64Table(buf[1] \div 4), Base64Table((buf[1] % 4) * 16), 61, 61 >>
    ELSE IF Len(buf) = 2
    THEN << Base64Table(buf[1] \div 4), Base64Table(((buf[1] % 4) * 16) + (buf[2] \div 16)),
            Base64Table((buf[2] % 16) * 4), 61 >>
    ELSE << Base64Table(buf[1] \div 4), Base64Table(((buf[1] % 4) * 16) + (buf[2] \div 16)),
            Base64Table(((buf[2] % 16) * 4) + (buf[3] \div 64)), Base64Table(buf[3] % 64) >>
         \o StandardBase64(Drop(buf, 3))

NoLineBreaks(str) == SelectSeq(str, LAMBDA c : c # 10)

\* C30: for a buffer of any length xmlSecBase64Encode returns the standard
\* base64 encoding of the buffer, line breaks aside; so it does for a buffer
\* of more than 3 bytes whose length is not a multiple of 3.
C30_EncodesAsStandard ==
    (fn.inp.op = "Base64Encode" /\ fn.called) =>
        /\ fn.res # << >>
        /\ NoLineBreaks(fn.res[1]) = StandardBase64(fn.inp.buf)


(***************************************************************************)
(* Properties of the base64 decoder, under SpecBase64                      *)
(***************************************************************************)
RoundTripped == fn.inp.op = "Base64Encode" /\ fn.called /\ fn.dec # << >>

\* C31: the string xmlSecBase64Encode returns for a buffer, with line breaks
\* or without, is decoded by xmlSecBase64Decode into a buffer larger than the
\* first one to the bytes of the first one: it returns their number and
\* writes them.
C31_DecodeOfEncodeIsIdentity ==
    (RoundTripped /\ fn.inp.extra > 0) =>
        /\ fn.dec[1].ret = Len(fn.inp.buf)
        /\ fn.dec[1].buf = fn.inp.buf

\* a buffer of 4 bytes encoded with a line break after every character
C31_Witness ==
    /\ RoundTripped
    /\ fn.inp.extra > 0
    /\ fn.inp.columns = 1
    /\ fn.inp.buf = << 0, 77, 255, 255 >>
    /\ fn.dec[1].buf = fn.inp.buf


\* the base64 characters of a string, its white space left out, and the
\* number of bytes a padded base64 string stands for
Base64Text(str) == SelectSeq(str, LAMBDA c : ~(c \in { 32, 9, 13, 10 }))
Base64Digits(str) == SelectSeq(str, LAMBDA c : xmlSecIsBase64Char(c))
Base64Padded(str) ==
    /\ \A k \in DOMAIN Base64Text(str) : xmlSecIsBase64Char(Base64Text(str)[k]) \/ Base64Text(str)[k] = 61
    /\ Len(Base64Text(str)) % 4 = 0
    /\ Len(Base64Text(str)) - Len(Base64Digits(str)) <= 2
    /\ SubSeq(Base64Text(str), 1, Len(Base64Digits(str))) = Base64Digits(str)
DecodedLength(str) ==
    (3 * (Len(Base64Text(str)) \div 4)) - (Len(Base64Text(str)) - Len(Base64Digits(str)))

DecodeCalled == fn.inp.op = "Base64Decode" /\ fn.called

\* C32: xmlSecBase64Decode of a padded base64 string returns the number of
\* bytes the string stands for when the buffer has at least that length, the
\* buffer of exactly that length included, and a negative value when the
\* buffer is shorter.
C32_DecodeFitsOrFails ==
    (DecodeCalled /\ Base64Padded(fn.inp.str)) =>
        IF fn.inp.len >= DecodedLength(fn.inp.str)
        THEN fn.dec[1].ret = DecodedLength(fn.inp.str)
        ELSE fn.dec[1].ret < 0


(***************************************************************************)
(* Properties of the starting points of the verification, under Spec       *)
(***************************************************************************)
\* C33: the certificate the OpenSSL call returns was a leaf of the candidates
\* as they were before the revoked ones were removed: none of them had it as
\* issuer.  The issuer of a leaf removed as revoked is no starting point and
\* is not returned.
C33_ResultWasLeafBeforeFilter ==
    (OpenSSL /\ pc = "done" /\ res # <<>>) => FindNextChainCert(StartCerts, res[1]) = <<>>


(***************************************************************************)
(* Properties of the buffers of the name readers, under SpecParse          *)
(***************************************************************************)
\* C34: xmlSecOpenSSLX509NameRead writes no byte behind the end of name[256]
\* or value[256], the zero byte it stores after a name or a value included,
\* whatever the text; a text with a value too long for the buffer is refused.
C34_WritesStayInNameAndValue ==
    (fn.inp.op = "NameRead" /\ fn.called) =>
        /\ ~fn.res.ub
        /\ (\E k \in DOMAIN fn.inp.made : Len(fn.inp.made[k].value) >= NameBufSize) => ~fn.res.ok


NssReadCalled == fn.inp.op \in { "NssNameRead", "NssNameReadText" } /\ fn.called

\* C35: what xmlSecNssX509NameRead writes, the terminating zero byte
\* included, fits the strlen(str) + 1 bytes it allocates, and the string it
\* returns is no longer than str; so it is for a text without '='.
C35_NssTextFitsItsBuffer ==
    NssReadCalled =>
        /\ ~fn.res.ub
        /\ fn.res.ok => Len(fn.res.out) <= Len(fn.inp.str)


(***************************************************************************)
(* Property of the escapes of the name readers, under SpecParse            *)
(***************************************************************************)
\* a text in which a backslash stands before one hex digit that no second
\* hex digit follows; no byte of the texts is 0, which stands for no delimiter
LoneHexEscape(str) == ~InEscapeRules(str, 0)

\* C36: a backslash followed by one hex digit without a second one after it
\* makes the string reader fail, and with it the OpenSSL and the NSS reader
\* of a name; the digit is not read as a character.
C36_LoneHexDigitIsRefused ==
    /\ (fn.inp.op = "NameStringRead" /\ fn.called /\ ~InEscapeRules(fn.inp.in, fn.inp.delim))
          => fn.res.ret < 0
    /\ (fn.inp.op \in { "NameRead", "NssNameRead", "NssNameReadText" } /\ fn.called
          /\ LoneHexEscape(fn.inp.str))
          => ~fn.res.ok

\* the OpenSSL reader has refused the text CN=x\2, without any write behind
\* a buffer
C36_Witness ==
    /\ fn.inp.op = "NameRead" /\ fn.called
    /\ fn.inp.str = T(<< "C", "N", "=", "x", "\\", "2" >>)
    /\ ~fn.res.ok /\ ~fn.res.ub


(***************************************************************************)
(* Property of the flag that switches the chain validation off, under Spec *)
(***************************************************************************)
\* the first certificate of the list that issued no other one of the list
FirstLeafOf(list) ==
    LET leaves == { k \in 1..Len(list) : FindNextChainCert(list, list[k]) = <<>> }
    IN  IF leaves = {} THEN <<>> ELSE << list[First(leaves)] >>

\* the call ran with XMLSEC_KEYINFO_FLAGS_X509DATA_DONT_VERIFY_CERTS and is over
DontVerifyDone == OpenSSL /\ pc = "done" /\ keyInfoCtx.dontVerifyCerts

AdoptCertFailed ==
    /\ fn.inp.op = "Store"
    /\ Len(fn'.log) = Len(fn.log) + 1
    /\ fn'.log[Len(fn'.log)].op = "AdoptCert"
    /\ fn'.log[Len(fn'.log)].ret < 0

\* C38: a call of adoptCert that returns an error leaves the store as it
\* was: the trust anchors, the untrusted pool of the OpenSSL store and the
\* certificate list and trust of the NSS store are unchanged, so the store
\* does not hold the certificate.
C38_FailedAdoptLeavesStore ==
    [][AdoptCertFailed => (ctx' = ctx /\ nssCtx' = nssCtx)]_vars


(***************************************************************************)
(* Property of the positions of a base64 context, under SpecCtx            *)
(***************************************************************************)
\* C39: at every point between the pushes and pops of any sequence of
\* xmlSecBase64CtxUpdate and xmlSecBase64CtxFinal calls on a context, in
\* encode or decode mode, inPos is at most 4 (the size of ctx->in) and
\* outPos at most 16 (the size of ctx->out), so the bounds asserted at the
\* start of the push, the pop, the encoding and the decoding hold and the
\* bytes written to ctx->in and ctx->out stay inside them.
C39_CtxPositionsInBounds ==
    fn.inp.op = "Ctx" =>
        /\ fn.b64.inPos >= 0 /\ fn.b64.inPos <= 4
        /\ Len(fn.b64.out) <= 16
        /\ DOMAIN fn.b64.in = 1..4
        /\ fn.b64.encode => fn.b64.inPos <= 3

\* an encoding context with one character a line holds a full group of
\* input while seven bytes of the last group are still in ctx->out, in the
\* second call or a later one
C39_Witness ==
    /\ fn.inp.op = "Ctx"
    /\ fn.b64.encode
    /\ fn.calls >= 2
    /\ fn.b64.inPos = 3
    /\ Len(fn.b64.out) = 7


(***************************************************************************)
(* Property of the status of the MSCng signature transform, under SpecSig  *)
(***************************************************************************)
\* the place of a status in the order None, Working, Finished, Ok / Fail
StatusRank(status) ==
    IF status = "None" THEN 0
    ELSE IF status = "Working" THEN 1
    ELSE IF status = "Finished" THEN 2
    ELSE 3

\* the step is a call of Execute, of Verify
SigExecuted == fn.inp.op = "Sig" /\ fn'.calls = fn.calls + 1 /\ fn'.call.op = "Execute"
SigVerified == fn.inp.op = "Sig" /\ fn'.calls = fn.calls + 1 /\ fn'.call.op = "Verify"

\* C40: the status of the MSCng signature transform only moves forward.
\* Execute takes None to Working (and, with last set, on to Finished in the
\* same call), takes Working to Finished only in a call with last set and
\* leaves Finished as it is; Verify is refused in every status but Finished,
\* sets Ok when BCryptVerifySignature succeeds, Fail when it reports
\* STATUS_INVALID_SIGNATURE and leaves Finished on any other error; Execute
\* in status Ok or Fail returns -1 with XMLSEC_ERRORS_R_INVALID_STATUS.
C40_SignatureStatusMovesForward ==
    [][/\ fn.inp.op = "Sig" =>
            /\ StatusRank(fn'.t.status) >= StatusRank(fn.t.status)
            /\ fn.t.status \in { "Ok", "Fail" } => fn'.t.status = fn.t.status
       /\ SigExecuted =>
            /\ fn'.t.status \in { "None", "Working", "Finished", fn.t.status }
            /\ (fn.t.status = "None" /\ fn'.ret = 0) =>
                   fn'.t.status = (IF fn'.call.last THEN "Finished" ELSE "Working")
            /\ (fn.t.status = "None" /\ fn'.call.fails = "none" /\ ~fn'.call.last) =>
                   fn'.t.status = "Working"
            /\ (fn.t.status # "Finished" /\ fn'.t.status = "Finished") => fn'.call.last
            /\ (fn.t.status = "Working" /\ fn'.ret = 0 /\ fn'.call.last) =>
                   fn'.t.status = "Finished"
            /\ fn.t.status = "Finished" => fn'.t.status = "Finished"
            /\ fn.t.status \in { "Ok", "Fail" } =>
                   (fn'.ret < 0 /\ fn'.err = "XMLSEC_ERRORS_R_INVALID_STATUS")
       /\ SigVerified =>
            /\ fn.t.status # "Finished" => (fn'.ret < 0 /\ fn'.t = fn.t)
            /\ fn'.ret = 0 <=> (fn'.t.status = "Ok" /\ fn.t.status = "Finished")
            /\ fn'.t.status = "Ok" =>
                   (fn.t.status = "Ok" \/ fn'.call.nt = "STATUS_SUCCESS")
            /\ (fn.t.status = "Finished" /\ fn'.t.status = "Fail") =>
                   fn'.call.nt = "STATUS_INVALID_SIGNATURE"
            /\ (fn.t.status = "Finished" /\ fn.t.operation = "Verify" /\ fn'.call.dataSize > 0
                  /\ fn'.call.pubkey # 0) =>
                   fn'.t.status = (IF fn'.call.nt = "STATUS_SUCCESS" THEN "Ok"
                                   ELSE IF fn'.call.nt = "STATUS_INVALID_SIGNATURE" THEN "Fail"
                                   ELSE "Finished")
    ]_vars

\* Execute was called on a transform whose signature did not verify and was
\* refused for its status
C40_Witness ==
    /\ fn.inp.op = "Sig"
    /\ fn.t.status = "Fail"
    /\ fn.call.op = "Execute"
    /\ fn.ret < 0
    /\ fn.err = "XMLSEC_ERRORS_R_INVALID_STATUS"

=============================================================================
